---- MODULE Spec2Model ----
(***************************************************************************)
(* Model of the credential-authentication layer of mcp-template-rs:        *)
(*   src/src/auth/mod.rs     AuthProvider, AuthData, NoOpAuthProvider      *)
(*   src/src/auth/redis.rs   RedisAuthService, SessionData, OAuthTokenData *)
(*   src/src/auth/apikey.rs  ApiKeyAuthService                             *)
(*   src/src/error.rs        ServerError                                   *)
(*                                                                         *)
(* Rust strings are modelled as sequences of one-character strings, so     *)
(* that parsing, splitting and key formatting are computed character by    *)
(* character as the code computes them.                                    *)
(***************************************************************************)
EXTENDS Integers, Sequences, FiniteSets, TLC

VARIABLES
    store,      \* the external key-value store: key -> payload
    storeOps,   \* number of changes the external issuer / TTL made so far
    now,        \* the wall clock read by chrono::Utc::now()
    task,       \* per caller task: the call in progress and its position
    api_keys,   \* ApiKeyAuthService.api_keys (HashMap<String, String>)
    apiCall,    \* the last call made on the key-table provider
    tokenCall,  \* the last call of a method of an OAuthTokenData record
    loaded,     \* the last Config::load(): what it found and what it returned
    server,     \* Server::run: the transport service, the shutdown task, the select
    rolled      \* the last DiceToolExample::roll: the request and its outcome

vars == <<store, storeOps, now, task, api_keys, apiCall, tokenCall, loaded,
          server, rolled>>

redisVars == <<store, storeOps, now, task>>
apiVars == <<api_keys, apiCall>>
processVars == <<loaded, server, rolled>>

----------------------------------------------------------------------------
(* Characters and strings *)

Digits == <<"0", "1", "2", "3", "4", "5", "6", "7", "8", "9">>

IsDigit(c) == \E i \in 1..Len(Digits) : Digits[i] = c

DigitVal(c) == (CHOOSE i \in 1..Len(Digits) : Digits[i] = c) - 1

HexLetters == {"a", "b", "c", "d", "e", "f", "A", "B", "C", "D", "E", "F"}

IsHex(c) == IsDigit(c) \/ c \in HexLetters

AllDigits(s) == \A i \in 1..Len(s) : IsDigit(s[i])

RECURSIVE NumVal(_)
NumVal(s) == IF Len(s) = 0 THEN 0
             ELSE 10 * NumVal(SubSeq(s, 1, Len(s) - 1)) + DigitVal(s[Len(s)])

StartsWith(s, p) == Len(s) >= Len(p) /\ SubSeq(s, 1, Len(p)) = p

\* s.contains(p) of Rust's str
Contains(s, p) ==
    \E i \in 0..(Len(s) - Len(p)) : SubSeq(s, i + 1, i + Len(p)) = p

\* s.split(sep).collect::<Vec<&str>>() of Rust's str, for a one-character sep
RECURSIVE Split(_, _)
Split(s, sep) ==
    IF \A i \in 1..Len(s) : s[i] # sep THEN <<s>>
    ELSE LET i == CHOOSE j \in 1..Len(s) :
                      s[j] = sep /\ \A k \in 1..(j - 1) : s[k] # sep
         IN <<SubSeq(s, 1, i - 1)>> \o Split(SubSeq(s, i + 1, Len(s)), sep)

----------------------------------------------------------------------------
(* uuid::Uuid::parse_str, as called at redis.rs:74 and redis.rs:135.  The  *)
(* parser accepts the hyphenated 8-4-4-4-12 form, the simple form of 32    *)
(* hex digits, the braced form and the urn:uuid: form, with hex digits of  *)
(* either case, and it accepts every version and variant nibble.           *)

HyphenAt == {9, 14, 19, 24}

parse_simple(s) == Len(s) = 32 /\ \A i \in 1..32 : IsHex(s[i])

parse_hyphenated(s) ==
    /\ Len(s) = 36
    /\ \A i \in 1..36 : IF i \in HyphenAt THEN s[i] = "-" ELSE IsHex(s[i])

UrnPrefix == <<"u", "r", "n", ":", "u", "u", "i", "d", ":">>

\* TRUE iff Uuid::parse_str(s) is Ok
parse_str(s) ==
    CASE Len(s) = 32 -> parse_simple(s)
      [] Len(s) = 36 -> parse_hyphenated(s)
      [] Len(s) = 38 -> s[1] = "{" /\ s[38] = "}"
                        /\ parse_hyphenated(SubSeq(s, 2, 37))
      [] Len(s) = 45 -> StartsWith(s, UrnPrefix)
                        /\ parse_hyphenated(SubSeq(s, 10, 45))
      [] OTHER -> FALSE

\* The shape the specification requires of a session id: 8-4-4-4-12 hex
\* groups whose version nibble (first digit of the third group) is 4.
IsUuidV4Shape(s) == parse_hyphenated(s) /\ s[15] = "4"

----------------------------------------------------------------------------
(* chrono::DateTime::parse_from_rfc3339 (redis.rs:40) and instants.  An    *)
(* instant is <<seconds since 1970-01-01T00:00:00Z, milliseconds>>; the    *)
(* model's clock has a resolution of one millisecond.                      *)

IsLeap(y) == (y % 4 = 0 /\ y % 100 # 0) \/ y % 400 = 0

DaysInMonth(y, m) ==
    CASE m \in {1, 3, 5, 7, 8, 10, 12} -> 31
      [] m \in {4, 6, 9, 11} -> 30
      [] OTHER -> IF IsLeap(y) THEN 29 ELSE 28

\* days from 1970-01-01 to the civil date y-m-d (proleptic Gregorian)
DaysFromCivil(y0, m, d) ==
    LET y == IF m <= 2 THEN y0 - 1 ELSE y0
        era == y \div 400
        yoe == y - era * 400
        mp == IF m > 2 THEN m - 3 ELSE m + 9
        doy == (153 * mp + 2) \div 5 + d - 1
        doe == yoe * 365 + yoe \div 4 - yoe \div 100 + doy
    IN era * 146097 + doe - 719468

\* the first three digits of a fraction of a second, as milliseconds
Millis(frac) ==
    LET padded == SubSeq(frac \o <<"0", "0", "0">>, 1, 3) IN NumVal(padded)

\* the length of the run of digits at the start of s
RECURSIVE DigitRun(_)
DigitRun(s) == IF Len(s) > 0 /\ IsDigit(s[1]) THEN 1 + DigitRun(Tail(s)) ELSE 0

NoInstant == <<0, 0>>

\* an offset parser that checks the offset's syntax and takes it for UTC
ParseOffset_ignored(s) ==
    IF s \in {<<"Z">>, <<"z">>} THEN [ok |-> TRUE, secs |-> 0]
    ELSE IF /\ Len(s) = 6
            /\ s[1] \in {"+", "-"}
            /\ AllDigits(SubSeq(s, 2, 3)) /\ s[4] = ":"
            /\ AllDigits(SubSeq(s, 5, 6))
            /\ NumVal(SubSeq(s, 2, 3)) <= 23 /\ NumVal(SubSeq(s, 5, 6)) <= 59
         THEN [ok |-> TRUE, secs |-> 0]
         ELSE [ok |-> FALSE, secs |-> 0]

\* offset part: "Z", "z" or (+|-)HH:MM; the result is the offset in seconds
ParseOffset(s) ==
    IF s \in {<<"Z">>, <<"z">>} THEN [ok |-> TRUE, secs |-> 0]
    ELSE IF /\ Len(s) = 6
            /\ s[1] \in {"+", "-"}
            /\ AllDigits(SubSeq(s, 2, 3)) /\ s[4] = ":"
            /\ AllDigits(SubSeq(s, 5, 6))
            /\ NumVal(SubSeq(s, 2, 3)) <= 23 /\ NumVal(SubSeq(s, 5, 6)) <= 59
         THEN [ok |-> TRUE,
               secs |-> (IF s[1] = "-" THEN -1 ELSE 1)
                        * (NumVal(SubSeq(s, 2, 3)) * 3600
                           + NumVal(SubSeq(s, 5, 6)) * 60)]
         ELSE [ok |-> FALSE, secs |-> 0]

\* Ok(instant in UTC) or Err, for YYYY-MM-DD(T|t| )HH:MM:SS[.f+](Z|z|+HH:MM|-HH:MM)
parse_from_rfc3339(s) ==
    IF ~ ( /\ Len(s) >= 20
           /\ AllDigits(SubSeq(s, 1, 4)) /\ s[5] = "-"
           /\ AllDigits(SubSeq(s, 6, 7)) /\ s[8] = "-"
           /\ AllDigits(SubSeq(s, 9, 10)) /\ s[11] \in {"T", "t", " "}
           /\ AllDigits(SubSeq(s, 12, 13)) /\ s[14] = ":"
           /\ AllDigits(SubSeq(s, 15, 16)) /\ s[17] = ":"
           /\ AllDigits(SubSeq(s, 18, 19)) )
    THEN [ok |-> FALSE, t |-> NoInstant]
    ELSE
      LET y == NumVal(SubSeq(s, 1, 4))
          mo == NumVal(SubSeq(s, 6, 7))
          d == NumVal(SubSeq(s, 9, 10))
          h == NumVal(SubSeq(s, 12, 13))
          mi == NumVal(SubSeq(s, 15, 16))
          sec == NumVal(SubSeq(s, 18, 19))
          rest == SubSeq(s, 20, Len(s))
          hasFrac == rest[1] = "."
          fracLen == IF hasFrac THEN DigitRun(Tail(rest)) ELSE 0
          frac == IF hasFrac THEN SubSeq(rest, 2, 1 + fracLen) ELSE <<>>
          off == ParseOffset(IF hasFrac
                             THEN SubSeq(rest, 2 + fracLen, Len(rest))
                             ELSE rest)
      IN IF /\ mo \in 1..12 /\ d >= 1 /\ d <= DaysInMonth(y, mo)
            /\ h <= 23 /\ mi <= 59 /\ sec <= 59
            /\ (hasFrac => fracLen >= 1)
            /\ off.ok
         THEN [ok |-> TRUE,
               t |-> <<DaysFromCivil(y, mo, d) * 86400 + h * 3600 + mi * 60
                       + sec - off.secs, Millis(frac)>>]
         ELSE [ok |-> FALSE, t |-> NoInstant]

\* a >= b on instants
InstantGe(a, b) == a[1] > b[1] \/ (a[1] = b[1] /\ a[2] >= b[2])

----------------------------------------------------------------------------
(* serde_json payloads.  A stored value is either text that is not JSON    *)
(* or a JSON object, given as a function from field names to JSON values.  *)

JStr(s) == [t |-> "str", v |-> s]
JNum == [t |-> "num", v |-> <<>>]
JNull == [t |-> "null", v |-> <<>>]
JArr(a) == [t |-> "arr", v |-> a]

NotJson == [kind |-> "text", obj |-> [none |-> JNull]]
JObject(o) == [kind |-> "object", obj |-> o]

HasStr(o, f) == f \in DOMAIN o /\ o[f].t = "str"

HasStrArr(o, f) ==
    /\ f \in DOMAIN o
    /\ o[f].t = "arr"
    /\ \A i \in 1..Len(o[f].v) : o[f].v[i].t = "str"

\* the text of serde_json's error for payload p and required fields fs
SerdeError(p, fs) ==
    IF p.kind # "object" THEN "expected value at line 1 column 1"
    ELSE IF \E f \in fs : f \notin DOMAIN p.obj THEN "missing field"
    ELSE "invalid type"

\* struct SessionData, redis.rs:11-17
SessionDataFields == {"session_id", "user_id", "created_at", "expires_at"}

NoSessionData == [f \in SessionDataFields |-> <<>>]

\* serde_json::from_str::<SessionData>, redis.rs:94 (unknown fields ignored)
from_str_SessionData(p) ==
    IF p.kind = "object" /\ \A f \in SessionDataFields : HasStr(p.obj, f)
    THEN [ok |-> TRUE, val |-> [f \in SessionDataFields |-> p.obj[f].v],
          err |-> ""]
    ELSE [ok |-> FALSE, val |-> NoSessionData,
          err |-> SerdeError(p, SessionDataFields)]

\* struct OAuthTokenData, redis.rs:20-34
TokenStringFields ==
    {"user_id", "provider", "provider_user_id", "email", "display_name",
     "access_token", "expires_at", "linked_at"}

TokenRequiredFields == TokenStringFields \cup {"scopes"}

None == [some |-> FALSE, v |-> <<>>]
Some(x) == [some |-> TRUE, v |-> x]

OAuthTokenData(o) ==
    [user_id |-> o["user_id"].v,
     provider |-> o["provider"].v,
     provider_user_id |-> o["provider_user_id"].v,
     email |-> o["email"].v,
     display_name |-> o["display_name"].v,
     access_token |-> o["access_token"].v,
     refresh_token |-> IF "refresh_token" \in DOMAIN o
                          /\ o["refresh_token"].t = "str"
                       THEN Some(o["refresh_token"].v) ELSE None,
     expires_at |-> o["expires_at"].v,
     scopes |-> [i \in 1..Len(o["scopes"].v) |-> o["scopes"].v[i].v],
     linked_at |-> o["linked_at"].v]

NoToken ==
    [user_id |-> <<>>, provider |-> <<>>, provider_user_id |-> <<>>,
     email |-> <<>>, display_name |-> <<>>, access_token |-> <<>>,
     refresh_token |-> None, expires_at |-> <<>>, scopes |-> <<>>,
     linked_at |-> <<>>]

\* serde_json::from_str::<OAuthTokenData>, redis.rs:117: refresh_token is an
\* Option (absent or null gives None), every other field is required
from_str_OAuthTokenData(p) ==
    IF /\ p.kind = "object"
       /\ \A f \in TokenStringFields : HasStr(p.obj, f)
       /\ HasStrArr(p.obj, "scopes")
       /\ ("refresh_token" \in DOMAIN p.obj
             => p.obj["refresh_token"].t \in {"str", "null"})
    THEN [ok |-> TRUE, val |-> OAuthTokenData(p.obj), err |-> ""]
    ELSE [ok |-> FALSE, val |-> NoToken,
          err |-> SerdeError(p, TokenRequiredFields)]

----------------------------------------------------------------------------
(* The strings the model draws its inputs from *)

G1 == <<"5", "5", "0", "e", "8", "4", "0", "0">>
G2 == <<"e", "2", "9", "b">>
G3v4 == <<"4", "1", "d", "4">>
G3v1 == <<"1", "1", "d", "4">>
G4 == <<"a", "7", "1", "6">>
G5 == <<"4", "4", "6", "6", "5", "5", "4", "4", "0", "0", "0", "0">>
G5b == <<"4", "4", "6", "6", "5", "5", "4", "4", "0", "0", "0", "1">>
G1upper == <<"5", "5", "0", "E", "8", "4", "0", "0">>
G1bad == <<"5", "5", "0", "g", "8", "4", "0", "0">>

Hyphenated(a, b, c, d, e) ==
    a \o <<"-">> \o b \o <<"-">> \o c \o <<"-">> \o d \o <<"-">> \o e

\* 550e8400-e29b-41d4-a716-446655440000, the id of test_session_id_validation
SidA == Hyphenated(G1, G2, G3v4, G4, G5)
SidB == Hyphenated(G1, G2, G3v4, G4, G5b)
SidUpper == Hyphenated(G1upper, G2, G3v4, G4, G5)
\* a version 1 UUID
SidV1 == Hyphenated(G1, G2, G3v1, G4, G5)
\* the same 32 hex digits without hyphens, braced, and as a URN
SidSimple == G1 \o G2 \o G3v4 \o G4 \o G5
SidBraced == <<"{">> \o SidA \o <<"}">>
SidUrn == UrnPrefix \o SidA
\* strings that are no UUID in any form
SidBadHex == Hyphenated(G1bad, G2, G3v4, G4, G5)
SidBadHyphen == G1 \o G2 \o <<"-", "-">> \o G3v4 \o <<"-">> \o G4 \o <<"-">> \o G5
SidWord == <<"i", "n", "v", "a", "l", "i", "d", "-", "u", "u", "i", "d">>
SidShort == <<"1", "2", "3">>
Empty == <<>>

SessionIds ==
    {SidA, SidB, SidUpper, SidV1, SidSimple, SidBraced, SidUrn,
     SidBadHex, SidBadHyphen, SidWord, SidShort, Empty}

\* the ids for which the external issuer may hold a session
IssuedIds == {SidA, SidB}

U1 == <<"u", "1">>
U2 == <<"u", "2">>
Users == {U1, U2}

Google == <<"g", "o", "o", "g", "l", "e">>
Github == <<"g", "i", "t", "h", "u", "b">>
Providers == {Google, Github}

\* timestamps
TsExpiry == <<"2", "0", "2", "6", "-", "0", "6", "-", "0", "1", "T", "1", "2", ":", "0", "0", ":", "0", "0", "Z">>
TsExpiryFrac == <<"2", "0", "2", "6", "-", "0", "6", "-", "0", "1", "T", "1", "2", ":", "0", "0", ":", "0", "0", ".", "5", "0", "0", "Z">>
TsExpiryOffset == <<"2", "0", "2", "6", "-", "0", "6", "-", "0", "1", "T", "1", "3", ":", "0", "0", ":", "0", "0", "+", "0", "2", ":", "0", "0">>
TsPast == <<"2", "0", "2", "0", "-", "0", "1", "-", "0", "1", "T", "0", "0", ":", "0", "0", ":", "0", "0", "Z">>
TsNoZone == <<"2", "0", "2", "6", "-", "0", "6", "-", "0", "1", "T", "1", "2", ":", "0", "0", ":", "0", "0">>
TsWord == <<"n", "e", "v", "e", "r">>

Timestamps ==
    {TsExpiry, TsExpiryFrac, TsExpiryOffset, TsPast, TsNoZone, TsWord}

ExpiryInstant == parse_from_rfc3339(TsExpiry).t

\* the values the wall clock takes: before, at and after ExpiryInstant
ClockInstants ==
    {<<ExpiryInstant[1] - 7200, 0>>, ExpiryInstant, <<ExpiryInstant[1] + 1, 0>>}

Secret1 == <<"a", "t", "-", "1">>
Secret2 == <<"a", "t", "-", "2">>
Refresh1 == <<"r", "t", "-", "1">>
Mail == <<"a", "@", "b", ".", "c">>
Name == <<"A", "n", "n">>
Pid == <<"1", "2", "3">>
ScopeEmail == <<"u", "s", "e", "r", "i", "n", "f", "o", ".", "e", "m", "a", "i", "l">>

----------------------------------------------------------------------------
(* Stored payloads the external issuer may write *)

SessionObject(id, user, expires) ==
    [session_id |-> JStr(id), user_id |-> JStr(user),
     created_at |-> JStr(TsPast), expires_at |-> JStr(expires)]

\* a record for SidA and user U1
SessGood == JObject(SessionObject(SidA, U1, TsExpiry))
\* a record of U2 that names SidA (it is stored under SidB), is past its own
\* expires_at and carries a field SessionData does not know
SessStale ==
    JObject([f \in SessionDataFields \cup {"note"} |->
               IF f = "note" THEN JNum
               ELSE SessionObject(SidA, U2, TsPast)[f]])
SessNoUser ==
    JObject([f \in SessionDataFields \ {"user_id"} |->
               SessionObject(SidA, U1, TsExpiry)[f]])
SessNumUser ==
    JObject([SessionObject(SidA, U1, TsExpiry) EXCEPT !["user_id"] = JNum])

TokenObject(user, provider, access, refresh, expires) ==
    [user_id |-> JStr(user), provider |-> JStr(provider),
     provider_user_id |-> JStr(Pid), email |-> JStr(Mail),
     display_name |-> JStr(Name), access_token |-> JStr(access),
     refresh_token |-> refresh, expires_at |-> JStr(expires),
     scopes |-> JArr(<<JStr(ScopeEmail)>>), linked_at |-> JStr(TsPast)]

TokValid == JObject(TokenObject(U1, Google, Secret1, JStr(Refresh1), TsExpiry))
TokOffset == JObject(TokenObject(U2, Github, Secret2, JNull, TsExpiryOffset))
TokFrac == JObject(TokenObject(U1, Github, Secret2, JStr(Refresh1), TsExpiryFrac))
TokPast == JObject(TokenObject(U1, Google, Secret1, JStr(Refresh1), TsPast))
TokNoZone == JObject(TokenObject(U1, Google, Secret1, JNull, TsNoZone))
TokNoSecret ==
    JObject([f \in TokenRequiredFields \ {"access_token"} |->
               TokenObject(U1, Google, Secret1, JNull, TsExpiry)[f]])

----------------------------------------------------------------------------
(* enum ServerError (error.rs:4-35) and Result *)

NoError == [variant |-> "", msg |-> "", detail |-> ""]

\* ServerError::InvalidSession(msg), error.rs:26; detail is the text of the
\* underlying error that format!() appends to msg, "" when there is none
InvalidSession(msg, detail) ==
    [variant |-> "InvalidSession", msg |-> msg, detail |-> detail]

\* ServerError::Redis(msg), error.rs:30
Redis(msg, detail) == [variant |-> "Redis", msg |-> msg, detail |-> detail]

Unit == <<>>
Ok(v) == [ok |-> TRUE, val |-> v, err |-> NoError]
Err(e) == [ok |-> FALSE, val |-> Unit, err |-> e]

\* the redis driver's error texts
DriverErrors == {"Connection refused (os error 111)", "timed out"}

----------------------------------------------------------------------------
(* The external store *)

Absent == [kind |-> "absent", obj |-> [none |-> JNull]]

SessionPrefix == <<"m", "c", "p", "_", "s", "e", "s", "s", "i", "o", "n", ":">>
OAuthPrefix == <<"l", "i", "n", "k", "e", "d", "_", "a", "c", "c", "o", "u", "n", "t", ":">>

\* the key without its prefix
session_key_bare(session_id) == session_id

\* format!("mcp_session:{}", session_id), redis.rs:83
session_key(session_id) == SessionPrefix \o session_id

\* format!("linked_account:{}:{}", user_id, provider), redis.rs:107
oauth_key(user_id, provider) == OAuthPrefix \o user_id \o <<":">> \o provider

SessionKeys == {session_key(id) : id \in IssuedIds}
OAuthKeys == {oauth_key(u, p) : u \in Users, p \in Providers}
StoreKeys == SessionKeys \cup OAuthKeys

EmptyStore == [k \in StoreKeys |-> Absent]

\* what the issuer may write at each key; together the keys cover every kind
\* of payload
IssuerWrites(key) ==
    CASE key = session_key(SidA) -> {SessGood, SessNoUser}
      [] key = session_key(SidB) -> {SessStale, SessNumUser, NotJson}
      [] key = oauth_key(U1, Google) -> {TokValid, TokPast}
      [] key = oauth_key(U2, Github) -> {TokOffset, TokNoZone}
      [] key = oauth_key(U1, Github) -> {TokFrac, TokNoSecret}
      [] OTHER -> {TokPast, NotJson}

PopulatedStore ==
    [k \in StoreKeys |->
        CASE k = session_key(SidA) -> SessGood
          [] k = session_key(SidB) -> SessStale
          [] k = oauth_key(U1, Google) -> TokValid
          [] k = oauth_key(U2, Github) -> TokOffset
          [] k = oauth_key(U1, Github) -> TokFrac
          [] OTHER -> TokPast]

\* stores whose records do not deserialize, or hold no usable expiry
CorruptStore ==
    [k \in StoreKeys |->
        CASE k = session_key(SidA) -> SessNoUser
          [] k = session_key(SidB) -> NotJson
          [] k = oauth_key(U1, Google) -> TokPast
          [] k = oauth_key(U2, Github) -> TokNoZone
          [] k = oauth_key(U1, Github) -> TokNoSecret
          [] OTHER -> NotJson]

MixedStore ==
    [k \in StoreKeys |->
        CASE k = session_key(SidA) -> SessGood
          [] k = session_key(SidB) -> SessNumUser
          [] k = oauth_key(U1, Google) -> TokNoZone
          [] k = oauth_key(U1, Github) -> TokNoSecret
          [] OTHER -> Absent]

StoreSamples == {EmptyStore, PopulatedStore, CorruptStore, MixedStore}

\* a read answered from a copy of the records taken when the service started
Get_cached(st, key) ==
    IF key \in DOMAIN PopulatedStore THEN PopulatedStore[key] ELSE Absent

\* GET key as Option<String>
Get(st, key) == IF key \in DOMAIN st THEN st[key] ELSE Absent

----------------------------------------------------------------------------
(* OAuthTokenData: expiry and drop *)

\* is_expired with > in place of >=: a record is still valid at the very
\* instant it expires
is_expired_strict(token, clock) ==
    LET parsed == parse_from_rfc3339(token.expires_at)
    IN IF parsed.ok THEN InstantGe(clock, parsed.t) /\ clock # parsed.t ELSE TRUE

\* OAuthTokenData::is_expired, redis.rs:38-51, with clock = Utc::now()
is_expired(token, clock) ==
    LET parsed == parse_from_rfc3339(token.expires_at)
    IN IF parsed.ok THEN InstantGe(clock, parsed.t) ELSE TRUE

\* a scope check that asks for an entry equal to the required scope
has_scope_exact(token, required_scope) ==
    \E i \in 1..Len(token.scopes) : token.scopes[i] = required_scope

\* OAuthTokenData::has_scope, redis.rs:54-56
has_scope(token, required_scope) ==
    \E i \in 1..Len(token.scopes) : Contains(token.scopes[i], required_scope)

\* the fields marked #[zeroize(skip)], redis.rs:27-30
ZeroizeSkip == {"access_token", "refresh_token"}

\* Zeroize of a String or Vec (cleared) and of an Option (None)
Zeroized(f) == IF f = "refresh_token" THEN None ELSE <<>>

\* The memory a dropped OAuthTokenData leaves behind: the Drop generated by
\* #[derive(Zeroize, ZeroizeOnDrop)], redis.rs:20-34, overwrites every field
\* that is not skipped; a skipped field is freed with its bytes in place.
drop_OAuthTokenData(token) ==
    [f \in DOMAIN token |->
        IF f \in ZeroizeSkip THEN token[f] ELSE Zeroized(f)]

----------------------------------------------------------------------------
(* RedisAuthService, redis.rs:59-159 *)

\* RedisAuthService::validate_session_format, redis.rs:134-138
validate_session_format(session_id) ==
    IF parse_str(session_id) THEN Ok(Unit)
    ELSE Err(InvalidSession("Invalid session ID format", ""))

\* <RedisAuthService as AuthProvider>::validate_credential_format,
\* redis.rs:156-158
validate_credential_format(credential) == validate_session_format(credential)

\* the format check that opens resolve_session, redis.rs:74-76
resolve_session_check(session_id) ==
    IF ~ parse_str(session_id)
    THEN Err(InvalidSession("Invalid session ID format", ""))
    ELSE Ok(Unit)

\* resolve_session reporting a missing key as a store error
resolve_session_finish_miss_as_redis(session_json) ==
    IF session_json = Absent
    THEN Err(Redis("Session not found or expired", ""))
    ELSE LET session_data == from_str_SessionData(session_json)
         IN IF ~ session_data.ok
            THEN Err(InvalidSession("Invalid session data", session_data.err))
            ELSE Ok(session_data.val.user_id)

\* resolve_session after the read, redis.rs:90-97
resolve_session_finish(session_json) ==
    IF session_json = Absent
    THEN Err(InvalidSession("Session not found or expired", ""))
    ELSE LET session_data == from_str_SessionData(session_json)
         IN IF ~ session_data.ok
            THEN Err(InvalidSession("Invalid session data", session_data.err))
            ELSE Ok(session_data.val.user_id)

\* what a call that panicked leaves in place of a result
Panicked == Err([variant |-> "panic", msg |-> "unwrap on an Err value",
                 detail |-> ""])

\* a tail of get_oauth_token that unwraps the deserialized record
get_oauth_token_finish_unwrap(token_json, clock) ==
    IF token_json = Absent
    THEN Err(InvalidSession("OAuth token not found", ""))
    ELSE LET token_data == from_str_OAuthTokenData(token_json)
         IN IF ~ token_data.ok
            THEN Panicked
            ELSE IF is_expired(token_data.val, clock)
            THEN Err(InvalidSession("OAuth token expired", ""))
            ELSE Ok(token_data.val)

\* get_oauth_token after the read, redis.rs:114-124
get_oauth_token_finish(token_json, clock) ==
    IF token_json = Absent
    THEN Err(InvalidSession("OAuth token not found", ""))
    ELSE LET token_data == from_str_OAuthTokenData(token_json)
         IN IF ~ token_data.ok
            THEN Err(InvalidSession("Invalid OAuth token data", token_data.err))
            ELSE IF is_expired(token_data.val, clock)
            THEN Err(InvalidSession("OAuth token expired", ""))
            ELSE Ok(token_data.val)

\* AuthData whose metadata carries the resolved user in place of the credential
redis_AuthData_user_as_session(user_id, credential) ==
    [user_id |-> user_id,
     metadata |-> [session_id |-> user_id, auth_type |-> "redis_session"]]

\* AuthData of <RedisAuthService as AuthProvider>::authenticate, redis.rs:147-153
redis_AuthData(user_id, credential) ==
    [user_id |-> user_id,
     metadata |-> [session_id |-> credential, auth_type |-> "redis_session"]]

\* #[error("...: {0}")] of ServerError, error.rs:25 and error.rs:29
ErrorPrefix(e) ==
    IF e.variant = "Redis" THEN "Redis error: " ELSE "Authentication error: "

\* format!("{}", e) for a ServerError e, as the pieces it is put together
\* from: the variant's prefix, the message given at the error's site and the
\* text of the underlying error that site appended with format!()
Display(e) == <<ErrorPrefix(e), e.msg, e.detail>>

\* McpError::invalid_params(message, None); message is kept in pieces
invalid_params(message) == [code |-> "invalid_params", message |-> message]

NoReply == [ok |-> TRUE, err |-> invalid_params(<<>>)]

\* the tools that take a session id, session_example.rs:47, session_example.rs:104
\* and http_client_example.rs:92
SessionTools == {"get_session_info", "get_user_profile", "authenticated_api_call"}

\* every tool that authenticates its caller (with auth_example.rs:38)
AuthTools == SessionTools \cup {"authenticated_action"}

\* Err(McpError) for a failed format check: auth_example.rs:44-50,
\* session_example.rs:52-58 and 109-115, http_client_example.rs:97-103
format_rejection(tool, e) ==
    [ok |-> FALSE,
     err |-> invalid_params(
               <<IF tool = "authenticated_action" THEN "Invalid credential: "
                 ELSE "Invalid session ID: ">> \o Display(e))]

\* the map_err closure of a failed provider call: auth_example.rs:56-62,
\* session_example.rs:66-72 and 123-129, http_client_example.rs:111-117
auth_rejection(e) ==
    [ok |-> FALSE,
     err |-> invalid_params(<<"Authentication failed: ">> \o Display(e))]

\* What a tool does when its provider call has returned: the rejection goes
\* to the client, a success lets the tool go on.  A task that is no tool
\* call, or whose provider call is still under way, is left as it is.
ToolReturn(tk) ==
    IF tk.tool \in AuthTools /\ tk.pc = "done" /\ ~ tk.result.ok
    THEN [tk EXCEPT !.reply = auth_rejection(tk.result.err)]
    ELSE tk

\* the operations that begin with resolve_session
ResolvingOps == {"resolve_session", "authenticate", "AuthProvider_authenticate"}

MaxHeld == 2

MaxStoreOps == 1

Tasks == {"t1"}

IdleTask ==
    [pc |-> "idle", op |-> "", session_id |-> <<>>, provider |-> <<>>,
     user_id |-> <<>>, ops |-> <<>>, clock |-> <<>>, result |-> Ok(Unit),
     held |-> <<>>, dropped |-> <<>>, tool |-> "", auth |-> "",
     reply |-> NoReply, prev |-> <<>>]

\* The log of a call's store operations (task.ops): what was asked, and the
\* store's answer: the driver's error text ("" when there was none) and, for
\* a get, the value returned.
ConnectOp(fault) ==
    [op |-> "connect", key |-> <<>>, fault |-> fault, reply |-> Absent]
GetOp(key, fault, reply) ==
    [op |-> "get", key |-> key, fault |-> fault, reply |-> reply]

\* validate_session_format / validate_credential_format: no await, no I/O
Validate(t, credential) ==
    /\ task[t].pc = "idle"
    /\ task' = [task EXCEPT ![t] =
                  [IdleTask EXCEPT !.pc = "done",
                                   !.op = "validate_credential_format",
                                   !.session_id = credential,
                                   !.result = validate_credential_format(credential)]]
    /\ UNCHANGED <<store, storeOps, now, apiVars, tokenCall, processVars>>

\* resolve_session up to its first await (redis.rs:72-80), entered directly,
\* from authenticate (redis.rs:129) or from AuthProvider::authenticate
\* (redis.rs:145)
StartResolve(t, op, session_id, provider) ==
    /\ task[t].pc = "idle"
    /\ op \in ResolvingOps
    /\ LET checked == resolve_session_check(session_id)
       IN task' = [task EXCEPT ![t] =
                     [IdleTask EXCEPT
                        !.pc = IF checked.ok THEN "rs_connect" ELSE "done",
                        !.op = op,
                        !.session_id = session_id,
                        !.provider = IF op = "authenticate" THEN provider ELSE <<>>,
                        !.result = checked]]
    /\ UNCHANGED <<store, storeOps, now, apiVars, tokenCall, processVars>>

\* get_multiplexed_async_connection().await of resolve_session, redis.rs:78-81
SessionConnect(t) ==
    /\ task[t].pc = "rs_connect"
    /\ \/ task' = [task EXCEPT ![t].pc = "rs_get",
                               ![t].ops = Append(@, ConnectOp(""))]
       \/ \E e \in DriverErrors :
            task' = [task EXCEPT ![t] = ToolReturn(
                       [task[t] EXCEPT
                          !.pc = "done",
                          !.ops = Append(@, ConnectOp(e)),
                          !.result = Err(Redis("Failed to connect to Redis", e))])]
    /\ UNCHANGED <<store, storeOps, now, apiVars, tokenCall, processVars>>

\* a composite authenticate without the ? of redis.rs:129: a failed step 1
\* goes on to step 2 with an empty user id
AfterResolve_no_short_circuit(tk, resolved) ==
    CASE tk.op = "authenticate" ->
            [tk EXCEPT !.pc = "tok_connect", !.user_id = resolved.val]
      [] tk.op = "AuthProvider_authenticate" /\ resolved.ok ->
            [tk EXCEPT !.pc = "done",
                       !.result = Ok(redis_AuthData(resolved.val, tk.session_id))]
      [] OTHER -> [tk EXCEPT !.pc = "done", !.result = resolved]

\* what resolve_session's caller does with its result, redis.rs:129-130 and
\* redis.rs:145-153
AfterResolve(tk, resolved) ==
    CASE tk.op = "authenticate" /\ resolved.ok ->
            [tk EXCEPT !.pc = "tok_connect", !.user_id = resolved.val]
      [] tk.op = "AuthProvider_authenticate" /\ resolved.ok ->
            [tk EXCEPT !.pc = "done",
                       !.result = Ok(redis_AuthData(resolved.val, tk.session_id))]
      [] OTHER -> [tk EXCEPT !.pc = "done", !.result = resolved]

\* a session read over a shared connection that hands a call the answer to
\* the read of another call waiting on the same connection
SessionGet_crossed(t) ==
    /\ task[t].pc = "rs_get"
    /\ LET waiting == {u \in DOMAIN task : u # t /\ task[u].pc = "rs_get"}
           asked == IF waiting = {} THEN t ELSE CHOOSE u \in waiting : TRUE
           key == session_key(task[t].session_id)
           session_json == Get(store, session_key(task[asked].session_id))
       IN \/ task' = [task EXCEPT ![t] = ToolReturn(
                        AfterResolve(
                          [task[t] EXCEPT
                             !.ops = Append(@, GetOp(key, "", session_json))],
                          resolve_session_finish(session_json)))]
          \/ \E e \in DriverErrors :
               task' = [task EXCEPT ![t] = ToolReturn(
                          AfterResolve(
                            [task[t] EXCEPT
                               !.ops = Append(@, GetOp(key, e, Absent))],
                            Err(Redis("Failed to get session", e))))]
    /\ UNCHANGED <<store, storeOps, now, apiVars, tokenCall, processVars>>

\* a session read that consumes the session (GETDEL in place of GET)
SessionGet_getdel(t) ==
    /\ task[t].pc = "rs_get"
    /\ LET key == session_key(task[t].session_id)
           session_json == Get(store, key)
       IN /\ \/ task' = [task EXCEPT ![t] = ToolReturn(
                           AfterResolve(
                             [task[t] EXCEPT
                                !.ops = Append(@, GetOp(key, "", session_json))],
                             resolve_session_finish(session_json)))]
             \/ \E e \in DriverErrors :
                  task' = [task EXCEPT ![t] = ToolReturn(
                             AfterResolve(
                               [task[t] EXCEPT
                                  !.ops = Append(@, GetOp(key, e, Absent))],
                               Err(Redis("Failed to get session", e))))]
          /\ store' = [k \in DOMAIN store |-> IF k = key THEN Absent ELSE store[k]]
    /\ UNCHANGED <<storeOps, now, apiVars, tokenCall, processVars>>

\* conn.get(&session_key).await and the rest of resolve_session, redis.rs:83-97
SessionGet(t) ==
    /\ task[t].pc = "rs_get"
    /\ LET key == session_key(task[t].session_id)
           session_json == Get(store, key)
       IN \/ task' = [task EXCEPT ![t] = ToolReturn(
                        AfterResolve(
                          [task[t] EXCEPT
                             !.ops = Append(@, GetOp(key, "", session_json))],
                          resolve_session_finish(session_json)))]
          \/ \E e \in DriverErrors :
               task' = [task EXCEPT ![t] = ToolReturn(
                          AfterResolve(
                            [task[t] EXCEPT
                               !.ops = Append(@, GetOp(key, e, Absent))],
                            Err(Redis("Failed to get session", e))))]
    /\ UNCHANGED <<store, storeOps, now, apiVars, tokenCall, processVars>>

\* get_oauth_token called directly, up to its first await, redis.rs:101-104
StartGetToken(t, user_id, provider) ==
    /\ task[t].pc = "idle"
    /\ task' = [task EXCEPT ![t] =
                  [IdleTask EXCEPT !.pc = "tok_connect",
                                   !.op = "get_oauth_token",
                                   !.user_id = user_id,
                                   !.provider = provider]]
    /\ UNCHANGED <<store, storeOps, now, apiVars, tokenCall, processVars>>

\* get_multiplexed_async_connection().await of get_oauth_token, redis.rs:102-105
TokenConnect(t) ==
    /\ task[t].pc = "tok_connect"
    /\ \/ task' = [task EXCEPT ![t].pc = "tok_get",
                               ![t].ops = Append(@, ConnectOp(""))]
       \/ \E e \in DriverErrors :
            task' = [task EXCEPT ![t] = ToolReturn(
                       [task[t] EXCEPT
                          !.pc = "done",
                          !.ops = Append(@, ConnectOp(e)),
                          !.result = Err(Redis("Failed to connect to Redis", e))])]
    /\ UNCHANGED <<store, storeOps, now, apiVars, tokenCall, processVars>>

\* The task after get_oauth_token's synchronous tail.  task.clock is the
\* value of Utc::now() that is_expired read, when it was called.  A record
\* that was deserialized and found expired is dropped on the early return
\* (redis.rs:120-122); a returned record is owned by the caller.
AfterToken(tk, token_json, clock) ==
    LET res == get_oauth_token_finish(token_json, clock)
        parsed == from_str_OAuthTokenData(token_json)
    IN [tk EXCEPT
          !.pc = "done",
          !.result = res,
          !.clock = IF token_json # Absent /\ parsed.ok THEN <<clock>> ELSE <<>>,
          !.held = IF res.ok THEN <<res.val>> ELSE <<>>,
          !.dropped = IF ~ res.ok /\ token_json # Absent /\ parsed.ok
                      THEN <<drop_OAuthTokenData(parsed.val)>> ELSE <<>>]

\* a token read that deletes the record it has found expired
TokenGet_evict_expired(t) ==
    /\ task[t].pc = "tok_get"
    /\ LET key == oauth_key(task[t].user_id, task[t].provider)
           token_json == Get(store, key)
           after == AfterToken(
                      [task[t] EXCEPT
                         !.ops = Append(@, GetOp(key, "", token_json))],
                      token_json, now)
       IN \/ /\ task' = [task EXCEPT ![t] = ToolReturn(after)]
             /\ store' = IF after.result = Err(InvalidSession("OAuth token expired", ""))
                         THEN [k \in DOMAIN store |->
                                 IF k = key THEN Absent ELSE store[k]]
                         ELSE store
          \/ /\ \E e \in DriverErrors :
                  task' = [task EXCEPT ![t] = ToolReturn(
                             [task[t] EXCEPT
                                !.pc = "done",
                                !.ops = Append(@, GetOp(key, e, Absent)),
                                !.result = Err(Redis("Failed to get OAuth token", e))])]
             /\ store' = store
    /\ UNCHANGED <<storeOps, now, apiVars, tokenCall, processVars>>

\* conn.get(&oauth_key).await and the rest of get_oauth_token, redis.rs:107-124
\* a step 2 that looks for the session again before it returns a token
TokenGet_recheck_session(t) ==
    /\ task[t].pc = "tok_get"
    /\ LET key == oauth_key(task[t].user_id, task[t].provider)
           token_json == Get(store, key)
           gone == /\ task[t].op = "authenticate"
                   /\ Get(store, session_key(task[t].session_id)) = Absent
       IN \/ \E e \in DriverErrors :
               task' = [task EXCEPT ![t] = ToolReturn(
                          [task[t] EXCEPT
                             !.pc = "done",
                             !.ops = Append(@, GetOp(key, e, Absent)),
                             !.result = Err(Redis("Failed to get OAuth token", e))])]
          \/ task' = [task EXCEPT ![t] = ToolReturn(
                        IF gone
                        THEN [task[t] EXCEPT
                                !.pc = "done",
                                !.ops = Append(@, GetOp(key, "", token_json)),
                                !.result = Err(InvalidSession("Session not found or expired", ""))]
                        ELSE AfterToken(
                               [task[t] EXCEPT
                                  !.ops = Append(@, GetOp(key, "", token_json))],
                               token_json, now))]
    /\ UNCHANGED <<store, storeOps, now, apiVars, tokenCall, processVars>>

TokenGet(t) ==
    /\ task[t].pc = "tok_get"
    /\ LET key == oauth_key(task[t].user_id, task[t].provider)
           token_json == Get(store, key)
       IN \/ \E e \in DriverErrors :
               task' = [task EXCEPT ![t] = ToolReturn(
                          [task[t] EXCEPT
                             !.pc = "done",
                             !.ops = Append(@, GetOp(key, e, Absent)),
                             !.result = Err(Redis("Failed to get OAuth token", e))])]
          \/ task' = [task EXCEPT ![t] = ToolReturn(
                        AfterToken(
                          [task[t] EXCEPT
                             !.ops = Append(@, GetOp(key, "", token_json))],
                          token_json, now))]
    /\ UNCHANGED <<store, storeOps, now, apiVars, tokenCall, processVars>>

\* the caller clones the record it was given (#[derive(Clone)], redis.rs:20)
CloneToken(t) ==
    /\ task[t].pc = "done"
    /\ Len(task[t].held) \in 1..(MaxHeld - 1)
    /\ task' = [task EXCEPT ![t].held = Append(@, @[1])]
    /\ UNCHANGED <<store, storeOps, now, apiVars, tokenCall, processVars>>

\* one of the records the caller owns goes out of scope
DropToken(t) ==
    /\ task[t].pc = "done"
    /\ Len(task[t].held) >= 1
    /\ task' = [task EXCEPT
                  ![t].held = Tail(@),
                  ![t].dropped = <<drop_OAuthTokenData(task[t].held[1])>>]
    /\ UNCHANGED <<store, storeOps, now, apiVars, tokenCall, processVars>>

\* the caller is finished with the call's result
Return(t) ==
    /\ task[t].pc = "done"
    /\ task[t].held = <<>>
    /\ task' = [task EXCEPT ![t] = IdleTask]
    /\ UNCHANGED <<store, storeOps, now, apiVars, tokenCall, processVars>>

MaxCalls == 3

\* The caller makes the call it has just finished once more, with the same
\* arguments (the core leaves retries to its callers).  prev keeps what the
\* earlier calls returned; the new call runs to its first await as
\* StartResolve and StartGetToken do.
Again(t) ==
    /\ task[t].pc = "done"
    /\ task[t].tool = "" /\ task[t].auth = ""
    /\ task[t].op \in ResolvingOps \cup {"get_oauth_token"}
    /\ Len(task[t].prev) < MaxCalls - 1
    /\ LET earlier == Append(task[t].prev, task[t].result)
           checked == resolve_session_check(task[t].session_id)
       IN task' = [task EXCEPT ![t] =
             IF task[t].op \in ResolvingOps
             THEN [IdleTask EXCEPT
                     !.pc = IF checked.ok THEN "rs_connect" ELSE "done",
                     !.op = task[t].op,
                     !.session_id = task[t].session_id,
                     !.provider = task[t].provider,
                     !.result = checked,
                     !.prev = earlier]
             ELSE [IdleTask EXCEPT
                     !.pc = "tok_connect",
                     !.op = task[t].op,
                     !.user_id = task[t].user_id,
                     !.provider = task[t].provider,
                     !.prev = earlier]]
    /\ UNCHANGED <<store, storeOps, now, apiVars, tokenCall, processVars>>

\* the external issuer writes a record
StoreSet(key, payload) ==
    /\ storeOps < MaxStoreOps
    /\ key \in StoreKeys
    /\ payload \in IssuerWrites(key)
    /\ store[key] # payload
    /\ store' = [store EXCEPT ![key] = payload]
    /\ storeOps' = storeOps + 1
    /\ UNCHANGED <<now, task, apiVars, tokenCall, processVars>>

\* the store evicts a key whose TTL has run out
StoreExpire(key) ==
    /\ storeOps < MaxStoreOps
    /\ key \in StoreKeys
    /\ store[key] # Absent
    /\ store' = [store EXCEPT ![key] = Absent]
    /\ storeOps' = storeOps + 1
    /\ UNCHANGED <<now, task, apiVars, tokenCall, processVars>>

\* time passes
Tick ==
    /\ \E later \in ClockInstants :
         /\ later # now
         /\ InstantGe(later, now)
         /\ now' = later
    /\ UNCHANGED <<store, storeOps, task, apiVars, tokenCall, processVars>>

----------------------------------------------------------------------------
(* ApiKeyAuthService, apikey.rs:7-58 *)

KeyK1 == <<"k", "1">>
KeyK2 == <<"k", "2">>
KeyUpper == <<"K", "1">>
KeyLead == <<" ", "k", "1">>
KeyTrail == <<"k", "1", " ">>
KeyBogus == <<"b", "o", "g", "u", "s">>

\* the credentials presented to the key-table provider
ApiCredentials == {KeyK1, KeyK2, KeyUpper, KeyLead, KeyTrail, KeyBogus, Empty}

EmptyTable == [k \in {} |-> <<>>]

\* HashMap::insert
Insert(map, k, v) ==
    [x \in DOMAIN map \cup {k} |-> IF x = k THEN v ELSE map[x]]

\* the loop of from_env over the comma-separated pairs, apikey.rs:20-25
RECURSIVE insert_pairs(_, _)
insert_pairs(pairs, map) ==
    IF pairs = <<>> THEN map
    ELSE LET parts == Split(Head(pairs), ":")
         IN insert_pairs(Tail(pairs),
                         IF Len(parts) = 2
                         THEN Insert(map, parts[1], parts[2])
                         ELSE map)

\* ApiKeyAuthService::from_env, apikey.rs:16-29; env is std::env::var("API_KEYS")
from_env(env) ==
    IF env.set THEN insert_pairs(Split(env.v, ","), EmptyTable) ELSE EmptyTable

\* ApiKeyAuthService::new, apikey.rs:32-34
new(map) == map

Unset == [set |-> FALSE, v |-> <<>>]
EnvVar(v) == [set |-> TRUE, v |-> v]

\* values of API_KEYS: "k1:u1,k2:u2", ":u1", "k1:u1:x,k2:u2", "", "k1:u1,k1:u2",
\* " k1:u1", and the variable not set
EnvSamples ==
    {EnvVar(<<"k", "1", ":", "u", "1", ",", "k", "2", ":", "u", "2">>),
     EnvVar(<<":", "u", "1">>),
     EnvVar(<<"k", "1", ":", "u", "1", ":", "x", ",", "k", "2", ":", "u", "2">>),
     EnvVar(<<>>),
     EnvVar(<<"k", "1", ":", "u", "1", ",", "k", "1", ":", "u", "2">>),
     EnvVar(<<" ", "k", "1", ":", "u", "1">>),
     Unset}

\* maps given to new: {"k1": "u1"}, {}, {"": "u1"}, {"K1": "u2", "k1": "u1"}
MapSamples ==
    {Insert(EmptyTable, KeyK1, U1),
     EmptyTable,
     Insert(EmptyTable, Empty, U1),
     Insert(Insert(EmptyTable, KeyUpper, U2), KeyK1, U1)}

ConstructedTables ==
    {from_env(e) : e \in EnvSamples} \cup {new(m) : m \in MapSamples}

\* AuthData of <ApiKeyAuthService as AuthProvider>::authenticate, apikey.rs:44-49
apikey_AuthData(user_id) ==
    [user_id |-> user_id, metadata |-> [auth_type |-> "api_key"]]

\* s.trim() for spaces
RECURSIVE Trim(_)
Trim(s) ==
    IF Len(s) > 0 /\ s[1] = " " THEN Trim(Tail(s))
    ELSE IF Len(s) > 0 /\ s[Len(s)] = " " THEN Trim(SubSeq(s, 1, Len(s) - 1))
    ELSE s

\* a lookup that trims the credential first
apikey_authenticate_trimmed(table, credential) ==
    IF Trim(credential) \in DOMAIN table
    THEN Ok([user_id |-> table[Trim(credential)],
             metadata |-> [auth_type |-> "api_key"]])
    ELSE Err(InvalidSession("Invalid API key", ""))

\* <ApiKeyAuthService as AuthProvider>::authenticate, apikey.rs:39-50
apikey_authenticate(table, credential) ==
    IF credential \in DOMAIN table
    THEN Ok(apikey_AuthData(table[credential]))
    ELSE Err(InvalidSession("Invalid API key", ""))

\* a format check that accepts only the keys of the table
apikey_validate_credential_format_known(credential) ==
    IF credential \notin DOMAIN api_keys
    THEN Err(InvalidSession("API key cannot be empty", ""))
    ELSE Ok(Unit)

\* <ApiKeyAuthService as AuthProvider>::validate_credential_format,
\* apikey.rs:52-57
apikey_validate_credential_format(credential) ==
    IF credential = <<>>
    THEN Err(InvalidSession("API key cannot be empty", ""))
    ELSE Ok(Unit)

NoCall == [op |-> "", credential |-> <<>>, result |-> Ok(Unit)]

ApiAuthenticate(credential) ==
    /\ apiCall' = [op |-> "authenticate", credential |-> credential,
                   result |-> apikey_authenticate(api_keys, credential)]
    /\ UNCHANGED <<api_keys, redisVars, tokenCall, processVars>>

ApiValidate(credential) ==
    /\ apiCall' = [op |-> "validate_credential_format",
                   credential |-> credential,
                   result |-> apikey_validate_credential_format(credential)]
    /\ UNCHANGED <<api_keys, redisVars, tokenCall, processVars>>

----------------------------------------------------------------------------
(* trait AuthProvider and NoOpAuthProvider, mod.rs:24-45, and the example  *)
(* tools that call a provider                                              *)

\* a disabled provider that lets every caller in as nobody
noop_authenticate_anonymous(credential) ==
    Ok([user_id |-> <<>>, metadata |-> [auth_type |-> "none"]])

\* <NoOpAuthProvider as AuthProvider>::authenticate, mod.rs:42-44
noop_authenticate(credential) ==
    Err(InvalidSession("Authentication is disabled", ""))

\* AuthProvider::validate_credential_format, the trait's default, mod.rs:31-33
default_validate_credential_format(credential) == Ok(Unit)

\* the providers whose authenticate has no await: it is over in one step
SyncProviders == {"ApiKeyAuthService", "NoOpAuthProvider"}

AuthProviders == SyncProviders \cup {"RedisAuthService"}

\* auth_provider.validate_credential_format(credential), dispatched on the
\* provider's type
provider_validate(auth, credential) ==
    CASE auth = "RedisAuthService" -> validate_credential_format(credential)
      [] auth = "ApiKeyAuthService" -> apikey_validate_credential_format(credential)
      [] auth = "NoOpAuthProvider" -> default_validate_credential_format(credential)

\* auth_provider.authenticate(credential) of a provider without await
provider_authenticate(auth, table, credential) ==
    CASE auth = "ApiKeyAuthService" -> apikey_authenticate(table, credential)
      [] auth = "NoOpAuthProvider" -> noop_authenticate(credential)

\* every credential presented to some provider
Credentials == SessionIds \cup ApiCredentials

\* validate_credential_format of the key-table or the disabled provider
ProviderValidate(t, auth, credential) ==
    /\ task[t].pc = "idle"
    /\ auth \in SyncProviders
    /\ task' = [task EXCEPT ![t] =
                  [IdleTask EXCEPT !.pc = "done",
                                   !.op = "validate_credential_format",
                                   !.auth = auth,
                                   !.session_id = credential,
                                   !.result = provider_validate(auth, credential)]]
    /\ UNCHANGED <<store, storeOps, now, apiVars, tokenCall, processVars>>

\* authenticate of the key-table or the disabled provider
ProviderAuthenticate(t, auth, credential) ==
    /\ task[t].pc = "idle"
    /\ auth \in SyncProviders
    /\ task' = [task EXCEPT ![t] =
                  [IdleTask EXCEPT
                     !.pc = "done",
                     !.op = "AuthProvider_authenticate",
                     !.auth = auth,
                     !.session_id = credential,
                     !.result = provider_authenticate(auth, api_keys, credential)]]
    /\ UNCHANGED <<store, storeOps, now, apiVars, tokenCall, processVars>>

\* one entry of a caller's record of its calls on the key-table provider
KeyCallEntry(tk) ==
    [op |-> tk.op, credential |-> tk.session_id, result |-> tk.result]

KeyOps == {"AuthProvider_authenticate", "validate_credential_format"}

\* what the key-table provider returns for op(credential) over table
key_call(op, table, credential) ==
    IF op = "validate_credential_format"
    THEN apikey_validate_credential_format(credential)
    ELSE apikey_authenticate(table, credential)

\* a provider whose keys are good for one use: a hit removes the key
KeyCall_consume(t, op, credential) ==
    /\ task[t].pc \in {"idle", "done"}
    /\ task[t].tool = "" /\ task[t].auth \in {"", "ApiKeyAuthService"}
    /\ op \in KeyOps
    /\ Len(task[t].prev) < MaxCalls - 1
    /\ task' = [task EXCEPT ![t] =
                  [IdleTask EXCEPT
                     !.pc = "done",
                     !.op = op,
                     !.auth = "ApiKeyAuthService",
                     !.session_id = credential,
                     !.result = key_call(op, api_keys, credential),
                     !.prev = IF task[t].pc = "idle" THEN <<>>
                              ELSE Append(task[t].prev, KeyCallEntry(task[t]))]]
    /\ api_keys' = IF op = "AuthProvider_authenticate"
                   THEN [k \in DOMAIN api_keys \ {credential} |-> api_keys[k]]
                   ELSE api_keys
    /\ UNCHANGED <<store, storeOps, now, apiCall, tokenCall, processVars>>

\* A caller makes one more call on the key-table provider: authenticate
\* (apikey.rs:39-50) or validate_credential_format (apikey.rs:52-57), with
\* any credential.  Both take &self; prev keeps the caller's earlier calls
\* and what they returned.
KeyCall(t, op, credential) ==
    /\ task[t].pc \in {"idle", "done"}
    /\ task[t].tool = "" /\ task[t].auth \in {"", "ApiKeyAuthService"}
    /\ op \in KeyOps
    /\ Len(task[t].prev) < MaxCalls - 1
    /\ task' = [task EXCEPT ![t] =
                  [IdleTask EXCEPT
                     !.pc = "done",
                     !.op = op,
                     !.auth = "ApiKeyAuthService",
                     !.session_id = credential,
                     !.result = key_call(op, api_keys, credential),
                     !.prev = IF task[t].pc = "idle" THEN <<>>
                              ELSE Append(task[t].prev, KeyCallEntry(task[t]))]]
    /\ UNCHANGED <<store, storeOps, now, apiVars, tokenCall, processVars>>

\* the provider operation a tool calls once the format check has passed:
\* auth_example.rs:53-54, session_example.rs:63-64 and 120-121,
\* http_client_example.rs:108-109
ToolOp(tool) ==
    CASE tool = "authenticated_action" -> "AuthProvider_authenticate"
      [] tool = "get_session_info" -> "resolve_session"
      [] OTHER -> "authenticate"

\* the format check a tool makes first: auth_example.rs:44,
\* session_example.rs:52 and 109, http_client_example.rs:97
ToolValidate(tool, auth, credential) ==
    IF tool = "authenticated_action" THEN provider_validate(auth, credential)
    ELSE validate_session_format(credential)

\* A tool is called: authenticated_action (auth_example.rs:38-62) with any
\* provider, get_session_info (session_example.rs:47-72), get_user_profile
\* (session_example.rs:104-129) or authenticated_api_call
\* (http_client_example.rs:92-117) with the session provider.  The step runs
\* to the tool's first await: the format check, and the provider call up to
\* its own first await.
ToolCall(t, tool, auth, credential, provider) ==
    /\ task[t].pc = "idle"
    /\ tool \in AuthTools
    /\ auth \in AuthProviders
    /\ tool \in SessionTools => auth = "RedisAuthService"
    /\ LET call == [IdleTask EXCEPT
                      !.tool = tool,
                      !.auth = auth,
                      !.session_id = credential,
                      !.provider = IF ToolOp(tool) = "authenticate"
                                   THEN provider ELSE <<>>]
           valid == ToolValidate(tool, auth, credential)
           checked == resolve_session_check(credential)
       IN task' = [task EXCEPT ![t] =
             IF ~ valid.ok
             THEN [call EXCEPT !.pc = "done",
                               !.op = "validate_credential_format",
                               !.result = valid,
                               !.reply = format_rejection(tool, valid.err)]
             ELSE IF auth \in SyncProviders
             THEN ToolReturn(
                    [call EXCEPT
                       !.pc = "done",
                       !.op = ToolOp(tool),
                       !.result = provider_authenticate(auth, api_keys, credential)])
             ELSE ToolReturn(
                    [call EXCEPT
                       !.pc = IF checked.ok THEN "rs_connect" ELSE "done",
                       !.op = ToolOp(tool),
                       !.result = checked])]
    /\ UNCHANGED <<store, storeOps, now, apiVars, tokenCall, processVars>>

----------------------------------------------------------------------------
(* Calls of the methods of an OAuthTokenData record, redis.rs:36-57 *)

\* 2026-06-01T12:00:00Z written with other UTC offsets
TsSameInstantPlus == <<"2", "0", "2", "6", "-", "0", "6", "-", "0", "1", "T", "1", "4", ":", "0", "0", ":", "0", "0", "+", "0", "2", ":", "0", "0">>
TsSameInstantMinus == <<"2", "0", "2", "6", "-", "0", "6", "-", "0", "1", "T", "0", "7", ":", "0", "0", ":", "0", "0", "-", "0", "5", ":", "0", "0">>
TsSameInstantHalf == <<"2", "0", "2", "6", "-", "0", "6", "-", "0", "1", "T", "0", "6", ":", "3", "0", ":", "0", "0", "-", "0", "5", ":", "3", "0">>
\* an hour before 2026-06-01T12:00:00Z, on the next calendar day of its zone
TsNextDayOffset == <<"2", "0", "2", "6", "-", "0", "6", "-", "0", "2", "T", "0", "1", ":", "0", "0", ":", "0", "0", "+", "1", "4", ":", "0", "0">>
TsFuture == <<"2", "0", "3", "0", "-", "0", "1", "-", "0", "1", "T", "0", "0", ":", "0", "0", ":", "0", "0", "Z">>
\* no RFC3339 timestamps
TsBadDay == <<"2", "0", "2", "6", "-", "0", "2", "-", "3", "0", "T", "1", "2", ":", "0", "0", ":", "0", "0", "Z">>
TsDateOnly == <<"2", "0", "2", "6", "-", "0", "6", "-", "0", "1">>

ExpirySamples ==
    Timestamps \cup {TsSameInstantPlus, TsSameInstantMinus, TsSameInstantHalf,
                     TsNextDayOffset, TsFuture, TsBadDay, TsDateOnly, Empty}

\* the values of Utc::now() around the sampled expiry instants
TokenClocks ==
    {<<ExpiryInstant[1] - 3601, 0>>, <<ExpiryInstant[1] - 3600, 0>>,
     <<ExpiryInstant[1] - 1, 999>>, ExpiryInstant, <<ExpiryInstant[1], 499>>,
     <<ExpiryInstant[1], 500>>, <<ExpiryInstant[1] + 1, 0>>}

\* the scope of test_token_expiration
ScopeUrl == <<"h", "t", "t", "p", "s", ":", "/", "/", "g", ".", "c", "o", "/", "a", "u", "t", "h", "/", "u", "s", "e", "r", "i", "n", "f", "o", ".", "e", "m", "a", "i", "l">>
ScopeOpenid == <<"o", "p", "e", "n", "i", "d">>
ScopeTest == <<"t", "e", "s", "t">>

\* values of OAuthTokenData.scopes
ScopeLists ==
    {<<>>, <<ScopeTest>>, <<ScopeUrl>>, <<ScopeOpenid, ScopeUrl>>,
     <<ScopeEmail, ScopeEmail>>, <<Empty>>}

\* values of has_scope's required_scope
ScopeQueries ==
    {ScopeEmail, ScopeUrl, ScopeOpenid, ScopeTest, Empty,
     <<"e", "m", "a", "i", "l">>, <<"u", "s", "e", "r", "i", "n", "f", "o", ".", "e", "m", "a", "i", "l", "s">>, <<"E", "m", "a", "i", "l">>, <<"i", "d", "t", "e">>}

\* an OAuthTokenData with the given expires_at and scopes
TokenRecord(expires_at, scopes) ==
    [OAuthTokenData(TokenObject(U1, Google, Secret1, JNull, expires_at))
       EXCEPT !.scopes = scopes]

NoTokenCall ==
    [op |-> "", token |-> NoToken, arg |-> <<>>, clock |-> NoInstant,
     result |-> FALSE]

\* token.is_expired(), redis.rs:38-51; now is what Utc::now() returns
IsExpired(token) ==
    /\ tokenCall' = [op |-> "is_expired", token |-> token, arg |-> <<>>,
                     clock |-> now, result |-> is_expired(token, now)]
    /\ UNCHANGED <<redisVars, apiVars, processVars>>

\* token.has_scope(required_scope), redis.rs:54-56
HasScope(token, required_scope) ==
    /\ tokenCall' = [op |-> "has_scope", token |-> token,
                     arg |-> required_scope, clock |-> NoInstant,
                     result |-> has_scope(token, required_scope)]
    /\ UNCHANGED <<redisVars, apiVars, processVars>>

----------------------------------------------------------------------------
(* Config::load, config.rs:58-202.  A configuration is a map from dotted   *)
(* keys to values; a file is read as the map of the keys it sets.          *)

KeyServerName == <<"s", "e", "r", "v", "e", "r", ".", "n", "a", "m", "e">>
KeyTransport == <<"s", "e", "r", "v", "e", "r", ".", "t", "r", "a", "n", "s", "p", "o", "r", "t">>
KeyLevel == <<"t", "e", "l", "e", "m", "e", "t", "r", "y", ".", "l", "e", "v", "e", "l">>
KeyFormat == <<"t", "e", "l", "e", "m", "e", "t", "r", "y", ".", "f", "o", "r", "m", "a", "t">>
KeyFile == <<"t", "e", "l", "e", "m", "e", "t", "r", "y", ".", "f", "i", "l", "e">>
KeyRedisUrl == <<"r", "e", "d", "i", "s", ".", "u", "r", "l">>

NoToml == [k \in {} |-> ""]
NoFile == [exists |-> FALSE, toml |-> NoToml]
TomlFile(toml) == [exists |-> TRUE, toml |-> toml]

\* the map with the keys of both, over's value where both set a key
Merge(base, over) ==
    [k \in DOMAIN base \cup DOMAIN over |->
        IF k \in DOMAIN over THEN over[k] ELSE base[k]]

\* the set_default calls of load, config.rs:171-179
Defaults ==
    [k \in {KeyServerName, KeyLevel, KeyFormat, KeyRedisUrl} |->
        CASE k = KeyServerName -> "CARGO_PKG_NAME"
          [] k = KeyLevel -> "info"
          [] k = KeyFormat -> "pretty"
          [] OTHER -> "redis://localhost:6379"]

\* get_default_config_content, config.rs:138-163
get_default_config_content ==
    [k \in {KeyServerName, KeyTransport, KeyLevel, KeyFormat, KeyFile} |->
        CASE k = KeyServerName -> "CARGO_PKG_NAME"
          [] k = KeyTransport -> "stdio"
          [] k = KeyLevel -> "info"
          [] k = KeyFormat -> "pretty"
          [] OTHER -> "/tmp/CARGO_PKG_NAME.log"]

\* The home directory as load finds it: whether dirs::home_dir() and the
\* file operations succeed, the user config if it exists already, and a
\* config.toml in the current directory.
NoHome == [ok |-> FALSE, user |-> NoFile, cwd |-> NoFile]
Home(user, cwd) == [ok |-> TRUE, user |-> user, cwd |-> cwd]

\* ensure_config_exists, config.rs:74-104: the user config after the call
ensure_config_exists(home) ==
    IF ~ home.ok THEN [ok |-> FALSE, file |-> NoFile]
    ELSE IF home.user.exists THEN [ok |-> TRUE, file |-> home.user]
    ELSE IF home.cwd.exists THEN [ok |-> TRUE, file |-> home.cwd]
    ELSE [ok |-> TRUE, file |-> TomlFile(get_default_config_content)]

\* get_config_sources, config.rs:109-135: the files found, in the order of
\* the vector
get_config_sources(home, docker) ==
    LET user_config == ensure_config_exists(home)
        first == IF user_config.ok
                 THEN <<[path |-> "~/.config/CARGO_PKG_NAME/config.toml",
                         toml |-> user_config.file.toml]>>
                 ELSE <<>>
        second == IF docker.exists
                  THEN <<[path |-> "/config.toml", toml |-> docker.toml]>>
                  ELSE <<>>
    IN first \o second

\* Iterator::rev
Reverse(s) == [i \in 1..Len(s) |-> s[Len(s) + 1 - i]]

UpperCase == <<"A", "B", "C", "D", "E", "F", "G", "H", "I", "J", "K", "L", "M", "N", "O", "P", "Q", "R", "S", "T", "U", "V", "W", "X", "Y", "Z">>
LowerCase == <<"a", "b", "c", "d", "e", "f", "g", "h", "i", "j", "k", "l", "m", "n", "o", "p", "q", "r", "s", "t", "u", "v", "w", "x", "y", "z">>

\* char::to_lowercase for ASCII
to_lowercase(c) ==
    IF \E i \in 1..Len(UpperCase) : UpperCase[i] = c
    THEN LowerCase[CHOOSE i \in 1..Len(UpperCase) : UpperCase[i] = c]
    ELSE c

McpPrefix == <<"m", "c", "p", "_">>

\* Environment::with_prefix("MCP").separator("_"), config.rs:189: a variable
\* whose lowercased name begins with "mcp_" sets the key that is the rest of
\* the name with every '_' replaced by '.'
env_key(name) ==
    LET lower == [i \in 1..Len(name) |-> to_lowercase(name[i])]
        rest == SubSeq(lower, Len(McpPrefix) + 1, Len(lower))
    IN [i \in 1..Len(rest) |-> IF rest[i] = "_" THEN "." ELSE rest[i]]

Environment(env) ==
    LET named == {n \in DOMAIN env :
                    StartsWith([i \in 1..Len(n) |-> to_lowercase(n[i])], McpPrefix)}
    IN [k \in {env_key(n) : n \in named} |->
          env[CHOOSE n \in named : env_key(n) = k]]

\* ConfigBuilder::build: each source added later overrides the ones before
RECURSIVE build(_, _)
build(acc, sources) ==
    IF sources = <<>> THEN acc
    ELSE build(Merge(acc, Head(sources)), Tail(sources))

\* the sources load adds to the builder, in the order of the add_source
\* calls, config.rs:183-189
builder_sources(config_sources, env) ==
    [i \in 1..Len(config_sources) |-> Reverse(config_sources)[i].toml]
        \o <<Environment(env)>>

ConfigOk(c) == [ok |-> TRUE, val |-> c, err |-> ""]
ConfigErr(e) == [ok |-> FALSE, val |-> NoToml, err |-> e]

\* Config::load, config.rs:165-201
load(home, docker, env) ==
    LET config_sources == get_config_sources(home, docker)
        config == build(Defaults, builder_sources(config_sources, env))
    IN IF config_sources = <<>>
       THEN ConfigErr("No configuration file found")
       ELSE IF KeyTransport \notin DOMAIN config
       THEN ConfigErr("missing field transport")
       ELSE IF config[KeyTransport] = "stdio" /\ KeyFile \notin DOMAIN config
       THEN ConfigOk(Merge(config, [k \in {KeyFile} |-> "/tmp/CARGO_PKG_NAME.log"]))
       ELSE ConfigOk(config)

\* configuration files and environments
UserName == [k \in {KeyServerName} |-> "user-name"]
UserStdio == [k \in {KeyServerName, KeyTransport, KeyLevel} |->
                CASE k = KeyServerName -> "user-name"
                  [] k = KeyTransport -> "stdio"
                  [] OTHER -> "debug"]
CwdHttp == [k \in {KeyTransport, KeyLevel} |->
              IF k = KeyTransport THEN "http-streaming:3000" ELSE "error"]
DockerHttp == [k \in {KeyServerName, KeyTransport, KeyLevel, KeyFile} |->
                 CASE k = KeyServerName -> "docker-name"
                   [] k = KeyTransport -> "http-streaming:8080"
                   [] k = KeyLevel -> "warn"
                   [] OTHER -> "/var/log/mcp.log"]
DockerLevel == [k \in {KeyLevel} |-> "warn"]

VarServerName == <<"M", "C", "P", "_", "S", "E", "R", "V", "E", "R", "_", "N", "A", "M", "E">>
VarLevel == <<"M", "C", "P", "_", "T", "E", "L", "E", "M", "E", "T", "R", "Y", "_", "L", "E", "V", "E", "L">>
VarLevelLower == <<"m", "c", "p", "_", "t", "e", "l", "e", "m", "e", "t", "r", "y", "_", "l", "e", "v", "e", "l">>
VarUnprefixed == <<"S", "E", "R", "V", "E", "R", "_", "N", "A", "M", "E">>

UserFiles == {NoFile, TomlFile(UserName), TomlFile(UserStdio), TomlFile(NoToml)}
CwdFiles == {NoFile, TomlFile(CwdHttp)}
Homes == {NoHome} \cup {Home(u, c) : u \in UserFiles, c \in CwdFiles}
DockerFiles == {NoFile, TomlFile(DockerHttp), TomlFile(DockerLevel)}
McpEnvironments ==
    {NoToml,
     [n \in {VarServerName} |-> "env-name"],
     [n \in {VarLevel, VarUnprefixed} |->
        IF n = VarLevel THEN "trace" ELSE "unprefixed-name"],
     [n \in {VarServerName, VarLevelLower} |->
        IF n = VarServerName THEN "env-name" ELSE "trace"]}

NotLoaded ==
    [called |-> FALSE, home |-> NoHome, config_sources |-> <<>>,
     docker |-> NoFile,
     env |-> NoToml, result |-> ConfigErr("")]

\* Config::load() in a process that finds home, docker and env
ConfigLoad(home, docker, env) ==
    /\ loaded' = [called |-> TRUE,
                  home |-> home,
                  config_sources |-> get_config_sources(home, docker),
                  docker |-> docker,
                  env |-> env,
                  result |-> load(home, docker, env)]
    /\ UNCHANGED <<redisVars, apiVars, tokenCall, server, rolled>>

----------------------------------------------------------------------------
(* Server::run, lib.rs:61-138 *)

Transports == {"Stdio", "HttpStreaming"}

MaxServed == 3

NotStarted ==
    [pc |-> "new", transport |-> "", service |-> "none", shutdown |-> "none",
     ctrl_c |-> "none", selected |-> "", served |-> 0]

\* run up to its select!: self.serve(transport).await? (lib.rs:68) or
\* TcpListener::bind(addr).await? (lib.rs:112) may fail, and run then returns
\* the error without having served; otherwise the service is running and
\* the shutdown task has been spawned (lib.rs:71-74, 116-121)
Run(transport, started) ==
    /\ server.pc = "new"
    /\ server' = IF started
                 THEN [server EXCEPT !.pc = "select", !.transport = transport,
                                     !.service = "running",
                                     !.shutdown = "spawned"]
                 ELSE [server EXCEPT !.pc = "returned_err",
                                     !.transport = transport]
    /\ UNCHANGED <<redisVars, apiVars, tokenCall, loaded, rolled>>

\* the running service handles a request of a client
ServeRequest ==
    /\ server.pc = "select" /\ server.service = "running"
    /\ server.served < MaxServed
    /\ server' = [server EXCEPT !.served = @ + 1]
    /\ UNCHANGED <<redisVars, apiVars, tokenCall, loaded, rolled>>

\* service.waiting() (lib.rs:77) or axum::serve (lib.rs:124) completes: the
\* client closed the stream, or the server stopped with an error
ServiceEnds(how) ==
    /\ server.pc = "select" /\ server.service = "running"
    /\ how \in {"ended", "ended_with_error"}
    /\ server' = [server EXCEPT !.service = how]
    /\ UNCHANGED <<redisVars, apiVars, tokenCall, loaded, rolled>>

\* The shutdown task, lib.rs:71-74 and 116-121: tokio::signal::ctrl_c().await
\* returns Ok(()) when the signal arrives and Err when the handler cannot be
\* registered; the task discards the result (.ok(), or logs the error) and
\* finishes.
ShutdownTask(ctrl_c) ==
    /\ server.pc = "select" /\ server.shutdown = "spawned"
    /\ ctrl_c \in {"received", "error"}
    /\ server' = [server EXCEPT !.shutdown = "finished", !.ctrl_c = ctrl_c]
    /\ UNCHANGED <<redisVars, apiVars, tokenCall, loaded, rolled>>

\* tokio::select! (lib.rs:76-83, 123-133) takes a branch whose future is
\* complete, and run returns Ok(())
Select(branch) ==
    /\ server.pc = "select"
    /\ \/ branch = "service" /\ server.service # "running"
       \/ branch = "shutdown" /\ server.shutdown = "finished"
    /\ server' = [server EXCEPT !.pc = "returned", !.selected = branch]
    /\ UNCHANGED <<redisVars, apiVars, tokenCall, loaded, rolled>>

----------------------------------------------------------------------------
(* DiceToolExample::roll, dice_example.rs:21-49.  A u32 is the pair        *)
(* <<high half, low half>> of its 16-bit halves; a sum that is not reduced  *)
(* to 32 bits has a high half of Half or more.                              *)

Half == 65536

MaxCount == 100

U32Max == <<Half - 1, Half - 1>>

\* a + b, not reduced
Plus(a, b) ==
    <<a[1] + b[1] + (a[2] + b[2]) \div Half, (a[2] + b[2]) % Half>>

\* a <= b
Le(a, b) == a[1] < b[1] \/ (a[1] = b[1] /\ a[2] <= b[2])

\* the sum of rolls[i..j] as a number (by halves, to keep the evaluation
\* shallow)
RECURSIVE SumRange(_, _, _)
SumRange(rolls, i, j) ==
    IF i > j THEN <<0, 0>>
    ELSE IF i = j THEN rolls[i]
    ELSE Plus(SumRange(rolls, i, (i + j) \div 2),
              SumRange(rolls, (i + j) \div 2 + 1, j))

Sum(rolls) == SumRange(rolls, 1, Len(rolls))

\* rolls.iter().sum() into a u32, dice_example.rs:34: an overflowing
\* addition panics in a build profile with overflow checks and wraps in
\* one without
sum_u32(rolls, profile) ==
    IF Le(Sum(rolls), U32Max) THEN [ok |-> TRUE, total |-> Sum(rolls)]
    ELSE IF profile = "overflow-checks" THEN [ok |-> FALSE, total |-> <<0, 0>>]
    ELSE [ok |-> TRUE, total |-> <<Sum(rolls)[1] % Half, Sum(rolls)[2]>>]

Builds == {"overflow-checks", "wrapping"}

\* the request checks of roll, dice_example.rs:22-27
roll_check(sides, count) ==
    IF sides = <<0, 0>> THEN "Dice must have at least 1 side"
    ELSE IF count = 0 \/ count > MaxCount THEN "Count must be between 1 and 100"
    ELSE ""

NotRolled ==
    [called |-> FALSE, sides |-> <<0, 0>>, count |-> 0, profile |-> "",
     outcome |-> "", message |-> "", rolls |-> <<>>, total |-> <<0, 0>>]

\* roll(RollRequestExample{sides, count}); rolls are the values
\* rng.random_range(1..=sides) returns, one for each die
Roll(sides, count, rolls, profile) ==
    /\ LET rejection == roll_check(sides, count)
           summed == sum_u32(rolls, profile)
       IN /\ rejection # "" => rolls = <<>>
          /\ rejection = "" =>
               /\ Len(rolls) = count
               /\ {i \in 1..count :
                      ~ (Le(<<0, 1>>, rolls[i]) /\ Le(rolls[i], sides))} = {}
          /\ rolled' =
               IF rejection # ""
               THEN [NotRolled EXCEPT !.called = TRUE, !.sides = sides,
                                      !.count = count, !.profile = profile,
                                      !.outcome = "invalid_params",
                                      !.message = rejection]
               ELSE [NotRolled EXCEPT !.called = TRUE, !.sides = sides,
                                      !.count = count, !.profile = profile,
                                      !.outcome = IF summed.ok THEN "success"
                                                  ELSE "panic",
                                      !.rolls = rolls,
                                      !.total = summed.total]
    /\ UNCHANGED <<redisVars, apiVars, tokenCall, loaded, server>>

\* requests: sides and counts at and around the limits
SidesSamples ==
    {<<0, 0>>, <<0, 1>>, <<0, 6>>, <<0, 20>>, <<1, 0>>, <<Half \div 2, 0>>,
     U32Max}
CountSamples == {0, 1, 2, 3, MaxCount, MaxCount + 1}

\* what the generator may return for count dice: every mix of the least,
\* the middle and the greatest value for a few dice, the same value on every
\* die for many
RollSamples(sides, count) ==
    LET faces == {<<0, 1>>, sides, <<sides[1] \div 2, (sides[2] + 1) \div 2>>}
                   \ {<<0, 0>>}
    IN IF count <= 3 THEN [1..count -> faces]
       ELSE {[i \in 1..count |-> f] : f \in faces}

----------------------------------------------------------------------------

ProcessIdle ==
    /\ loaded = NotLoaded
    /\ server = NotStarted
    /\ rolled = NotRolled

----------------------------------------------------------------------------
(* Specifications *)

\* the session provider, its callers, the store and the clock
Init ==
    /\ store \in {EmptyStore, PopulatedStore}
    /\ storeOps = 0
    /\ now \in ClockInstants
    /\ task = [t \in Tasks |-> IdleTask]
    /\ api_keys = EmptyTable
    /\ apiCall = NoCall
    /\ tokenCall = NoTokenCall
    /\ ProcessIdle

Next ==
    \/ \E t \in DOMAIN task, c \in SessionIds : Validate(t, c)
    \/ \E t \in DOMAIN task, op \in ResolvingOps, c \in SessionIds, p \in Providers :
         StartResolve(t, op, c, p)
    \/ \E t \in DOMAIN task : SessionConnect(t)
    \/ \E t \in DOMAIN task : SessionGet(t)
    \/ \E t \in DOMAIN task, u \in Users, p \in Providers : StartGetToken(t, u, p)
    \/ \E t \in DOMAIN task : TokenConnect(t)
    \/ \E t \in DOMAIN task : TokenGet(t)
    \/ \E t \in DOMAIN task : CloneToken(t)
    \/ \E t \in DOMAIN task : DropToken(t)
    \/ \E t \in DOMAIN task : Return(t)
    \/ \E k \in StoreKeys : \E v \in IssuerWrites(k) : StoreSet(k, v)
    \/ \E k \in StoreKeys : StoreExpire(k)
    \/ Tick

Spec == Init /\ [][Next]_vars

\* the key-table provider, constructed by from_env or by new; it has no store
ApiInit ==
    /\ api_keys \in ConstructedTables
    /\ apiCall = NoCall
    /\ store = [k \in {} |-> Absent]
    /\ storeOps = 0
    /\ now = ExpiryInstant
    /\ task = [t \in Tasks |-> IdleTask]
    /\ tokenCall = NoTokenCall
    /\ ProcessIdle

ApiNext ==
    \/ \E c \in ApiCredentials : ApiAuthenticate(c)
    \/ \E c \in ApiCredentials : ApiValidate(c)

SpecApiKey == ApiInit /\ [][ApiNext]_vars

\* the methods of OAuthTokenData, called on records of every sampled expiry
\* and scope list at every sampled time
TokenInit ==
    /\ tokenCall = NoTokenCall
    /\ ProcessIdle
    /\ now \in TokenClocks
    /\ store = [k \in {} |-> Absent]
    /\ storeOps = 0
    /\ task = [t \in Tasks |-> IdleTask]
    /\ api_keys = EmptyTable
    /\ apiCall = NoCall

TokenNext ==
    \/ \E e \in ExpirySamples : IsExpired(TokenRecord(e, <<ScopeEmail>>))
    \/ \E s \in ScopeLists, q \in ScopeQueries :
         HasScope(TokenRecord(TsExpiry, s), q)

SpecToken == TokenInit /\ [][TokenNext]_vars

\* every provider, called directly and through the example tools, over
\* every sampled store, table and time; each behaviour is one call
ProvidersInit ==
    /\ store \in StoreSamples
    /\ storeOps = 0
    /\ now \in ClockInstants
    /\ task = [t \in Tasks |-> IdleTask]
    /\ api_keys \in ConstructedTables
    /\ apiCall = NoCall
    /\ tokenCall = NoTokenCall
    /\ ProcessIdle

ProvidersNext ==
    \/ \E t \in DOMAIN task, c \in SessionIds : Validate(t, c)
    \/ \E t \in DOMAIN task, op \in ResolvingOps, c \in SessionIds, p \in Providers :
         StartResolve(t, op, c, p)
    \/ \E t \in DOMAIN task : SessionConnect(t)
    \/ \E t \in DOMAIN task : SessionGet(t)
    \/ \E t \in DOMAIN task, u \in Users, p \in Providers : StartGetToken(t, u, p)
    \/ \E t \in DOMAIN task : TokenConnect(t)
    \/ \E t \in DOMAIN task : TokenGet(t)
    \/ \E t \in DOMAIN task, a \in SyncProviders, c \in Credentials :
         ProviderValidate(t, a, c)
    \/ \E t \in DOMAIN task, a \in SyncProviders, c \in Credentials :
         ProviderAuthenticate(t, a, c)
    \/ \E t \in DOMAIN task, tool \in AuthTools, a \in AuthProviders,
          c \in Credentials, p \in Providers :
         ToolCall(t, tool, a, c, p)

SpecProviders == ProvidersInit /\ [][ProvidersNext]_vars

\* the keys the repeated calls read
RepeatKeys == {session_key(SidA), oauth_key(U1, Google)}

\* a caller that repeats its call while the issuer, the store's TTL and the
\* clock go on
RepeatInit ==
    /\ store = PopulatedStore
    /\ storeOps = 0
    /\ now \in ClockInstants
    /\ task = [t \in Tasks |-> IdleTask]
    /\ api_keys = EmptyTable
    /\ apiCall = NoCall
    /\ tokenCall = NoTokenCall
    /\ ProcessIdle

RepeatNext ==
    \/ \E t \in DOMAIN task, op \in {"resolve_session", "authenticate"},
          c \in {SidA, SidWord} :
         StartResolve(t, op, c, Google)
    \/ \E t \in DOMAIN task : SessionConnect(t)
    \/ \E t \in DOMAIN task : SessionGet(t)
    \/ \E t \in DOMAIN task : StartGetToken(t, U1, Google)
    \/ \E t \in DOMAIN task : TokenConnect(t)
    \/ \E t \in DOMAIN task : TokenGet(t)
    \/ \E t \in DOMAIN task : Again(t)
    \/ \E k \in RepeatKeys : \E v \in IssuerWrites(k) : StoreSet(k, v)
    \/ \E k \in RepeatKeys : StoreExpire(k)
    \/ Tick

SpecRepeat == RepeatInit /\ [][RepeatNext]_vars

\* the tasks that call the providers at the same time
ConcurrentTasks == {"t1", "t2"}

\* two tasks, each making one call on the session provider or the key-table
\* provider, over a store and a table that nothing changes
ConcurrentInit ==
    /\ store = PopulatedStore
    /\ storeOps = 0
    /\ now \in ClockInstants
    /\ task = [t \in ConcurrentTasks |-> IdleTask]
    /\ api_keys \in {new(m) : m \in MapSamples}
    /\ apiCall = NoCall
    /\ tokenCall = NoTokenCall
    /\ ProcessIdle

ConcurrentNext ==
    \/ \E t \in DOMAIN task, op \in {"resolve_session", "authenticate"},
          c \in IssuedIds :
         StartResolve(t, op, c, Github)
    \/ \E t \in DOMAIN task : SessionConnect(t)
    \/ \E t \in DOMAIN task : SessionGet(t)
    \/ \E t \in DOMAIN task, u \in Users : StartGetToken(t, u, Github)
    \/ \E t \in DOMAIN task : TokenConnect(t)
    \/ \E t \in DOMAIN task : TokenGet(t)
    \/ \E t \in DOMAIN task, c \in {KeyK1, KeyUpper, Empty} :
         ProviderAuthenticate(t, "ApiKeyAuthService", c)

SpecConcurrent == ConcurrentInit /\ [][ConcurrentNext]_vars

\* a caller making call after call on a key-table provider built by
\* from_env or by new
KeyCallsInit ==
    /\ api_keys \in ConstructedTables
    /\ apiCall = NoCall
    /\ store = EmptyStore
    /\ storeOps = 0
    /\ now = ExpiryInstant
    /\ task = [t \in Tasks |-> IdleTask]
    /\ tokenCall = NoTokenCall
    /\ ProcessIdle

KeyCallsNext ==
    \E t \in DOMAIN task, op \in KeyOps, c \in ApiCredentials :
        KeyCall(t, op, c)

SpecKeyCalls == KeyCallsInit /\ [][KeyCallsNext]_vars

\* user ids and a provider string that contain ':'
UserU == <<"u">>
UserUX == <<"u", ":", "x">>
ProviderXGithub == <<"x", ":", "g", "i", "t", "h", "u", "b">>

\* the github accounts of users "u" and "u:x"
TokOfU == JObject(TokenObject(UserU, Github, Secret1, JNull, TsExpiry))
TokOfUX == JObject(TokenObject(UserUX, Github, Secret2, JNull, TsExpiry))

\* a store in which SidA is the session of "u" and SidB that of "u:x", and
\* both users have linked a github account
LinkedStore ==
    [k \in {session_key(SidA), session_key(SidB),
            oauth_key(UserU, Github), oauth_key(UserUX, Github)} |->
        CASE k = session_key(SidA) -> JObject(SessionObject(SidA, UserU, TsExpiry))
          [] k = session_key(SidB) -> JObject(SessionObject(SidB, UserUX, TsExpiry))
          [] k = oauth_key(UserU, Github) -> TokOfU
          [] OTHER -> TokOfUX]

\* composite authenticate with the provider string the client supplies
\* (UserProfileRequest.provider, session_example.rs:13-20)
LinkedInit ==
    /\ store = LinkedStore
    /\ storeOps = 0
    /\ now \in ClockInstants
    /\ task = [t \in Tasks |-> IdleTask]
    /\ api_keys = EmptyTable
    /\ apiCall = NoCall
    /\ tokenCall = NoTokenCall
    /\ ProcessIdle

LinkedNext ==
    \/ \E t \in DOMAIN task, c \in {SidA, SidB},
          p \in {Github, Google, ProviderXGithub} :
         StartResolve(t, "authenticate", c, p)
    \/ \E t \in DOMAIN task : SessionConnect(t)
    \/ \E t \in DOMAIN task : SessionGet(t)
    \/ \E t \in DOMAIN task : TokenConnect(t)
    \/ \E t \in DOMAIN task : TokenGet(t)
    \/ \E t \in DOMAIN task : Return(t)

SpecLinked == LinkedInit /\ [][LinkedNext]_vars

\* two tasks calling authenticate and get_oauth_token while the issuer
\* replaces records and the store's TTL evicts them
InterleavedInit ==
    /\ store = PopulatedStore
    /\ storeOps = 0
    /\ now \in ClockInstants
    /\ task = [t \in ConcurrentTasks |-> IdleTask]
    /\ api_keys = EmptyTable
    /\ apiCall = NoCall
    /\ tokenCall = NoTokenCall
    /\ ProcessIdle

InterleavedNext ==
    \/ \E t \in DOMAIN task : StartResolve(t, "authenticate", SidA, Google)
    \/ \E t \in DOMAIN task : SessionConnect(t)
    \/ \E t \in DOMAIN task : SessionGet(t)
    \/ \E t \in DOMAIN task : StartGetToken(t, U1, Google)
    \/ \E t \in DOMAIN task : TokenConnect(t)
    \/ \E t \in DOMAIN task : TokenGet(t)
    \/ \E k \in RepeatKeys : \E v \in IssuerWrites(k) : StoreSet(k, v)
    \/ \E k \in RepeatKeys : StoreExpire(k)

SpecInterleaved == InterleavedInit /\ [][InterleavedNext]_vars

\* Config::load in every sampled environment
ConfigInit ==
    /\ store = EmptyStore
    /\ storeOps = 0
    /\ now = ExpiryInstant
    /\ task = [t \in Tasks |-> IdleTask]
    /\ api_keys = EmptyTable
    /\ apiCall = NoCall
    /\ tokenCall = NoTokenCall
    /\ ProcessIdle

ConfigNext ==
    \E home \in Homes, docker \in DockerFiles, env \in McpEnvironments :
        ConfigLoad(home, docker, env)

SpecConfig == ConfigInit /\ [][ConfigNext]_vars

\* Server::run with either transport
ServerInit ==
    /\ store = EmptyStore
    /\ storeOps = 0
    /\ now = ExpiryInstant
    /\ task = [t \in Tasks |-> IdleTask]
    /\ api_keys = EmptyTable
    /\ apiCall = NoCall
    /\ tokenCall = NoTokenCall
    /\ ProcessIdle

ServerNext ==
    \/ \E transport \in Transports, started \in BOOLEAN : Run(transport, started)
    \/ ServeRequest
    \/ \E how \in {"ended", "ended_with_error"} : ServiceEnds(how)
    \/ \E ctrl_c \in {"received", "error"} : ShutdownTask(ctrl_c)
    \/ \E branch \in {"service", "shutdown"} : Select(branch)

SpecServer == ServerInit /\ [][ServerNext]_vars

\* DiceToolExample::roll for every sampled request
DiceInit ==
    /\ store = EmptyStore
    /\ storeOps = 0
    /\ now = ExpiryInstant
    /\ task = [t \in Tasks |-> IdleTask]
    /\ api_keys = EmptyTable
    /\ apiCall = NoCall
    /\ tokenCall = NoTokenCall
    /\ ProcessIdle

DiceNext ==
    \E sides \in SidesSamples, count \in CountSamples, profile \in Builds :
        \E rolls \in IF roll_check(sides, count) = ""
                      THEN RollSamples(sides, count) ELSE {<<>>} :
            Roll(sides, count, rolls, profile)

SpecDice == DiceInit /\ [][DiceNext]_vars

----------------------------------------------------------------------------
(* Properties *)

Done(t) == task[t].pc = "done"

TokenOps == {"get_oauth_token", "authenticate"}

\* the last store operation of t's call
LastOp(t) == task[t].ops[Len(task[t].ops)]

\* t's call read a linked_account value that deserialized as OAuthTokenData
ReadToken(t) ==
    /\ Len(task[t].ops) > 0
    /\ LastOp(t).op = "get"
    /\ StartsWith(LastOp(t).key, OAuthPrefix)
    /\ LastOp(t).fault = ""
    /\ from_str_OAuthTokenData(LastOp(t).reply).ok

TokenExpired == Err(InvalidSession("OAuth token expired", ""))

\* C1: whenever an OAuthTokenData is dropped (after a normal return, on the
\* early return for an expired token, and for every clone), the memory it
\* leaves behind holds neither its access_token nor its refresh_token: both
\* have been overwritten.
C1_SecretsZeroedOnDrop ==
    \A t \in DOMAIN task : \A i \in 1..Len(task[t].dropped) :
        /\ task[t].dropped[i].access_token = Zeroized("access_token")
        /\ task[t].dropped[i].refresh_token = Zeroized("refresh_token")

\* C2: the session provider's validate_credential_format succeeds exactly
\* for the strings of UUID version 4 shape (8-4-4-4-12 hex groups), and
\* fails with the "Invalid session ID format" error for every other string.
C2_ValidateIffUuidV4 ==
    \A t \in DOMAIN task :
        Done(t) /\ task[t].op = "validate_credential_format" =>
            IF IsUuidV4Shape(task[t].session_id)
            THEN task[t].result = Ok(Unit)
            ELSE task[t].result = Err(InvalidSession("Invalid session ID format", ""))

\* C3: get_oauth_token and the composite authenticate return a token only
\* if its expires_at parses as RFC3339 and lies strictly after the clock
\* value read by the expiry check; a token that was read and deserialized
\* and whose expires_at does not parse, or is at or before that clock value,
\* makes the call fail with InvalidSession("OAuth token expired").
C3_NeverReturnsExpired ==
    \A t \in DOMAIN task :
        Done(t) /\ task[t].op \in TokenOps =>
            /\ task[t].result.ok =>
                 LET e == parse_from_rfc3339(task[t].result.val.expires_at)
                 IN /\ e.ok
                    /\ Len(task[t].clock) = 1
                    /\ ~ InstantGe(task[t].clock[1], e.t)
            /\ ReadToken(t) =>
                 LET token == from_str_OAuthTokenData(LastOp(t).reply).val
                     e == parse_from_rfc3339(token.expires_at)
                 IN /\ Len(task[t].clock) = 1
                    /\ (~ e.ok \/ InstantGe(task[t].clock[1], e.t))
                          => task[t].result = TokenExpired

\* a composite authenticate that read a token at the very instant it expires
C3_Witness ==
    \E t \in DOMAIN task :
        /\ Done(t) /\ task[t].op = "authenticate"
        /\ ReadToken(t) /\ LastOp(t).reply = TokValid
        /\ task[t].clock = <<ExpiryInstant>>
        /\ task[t].result = TokenExpired

StoreOps(t) == task[t].ops

\* the format error of resolve_session and validate_session_format
FormatError == Err(InvalidSession("Invalid session ID format", ""))

C5_MalformedIdNeverReachesStore ==
    \A t \in DOMAIN task :
        task[t].op \in ResolvingOps /\ ~ IsUuidV4Shape(task[t].session_id) =>
            /\ Done(t)
            /\ StoreOps(t) = <<>>
            /\ task[t].result = FormatError

\* what step 1 (resolve_session) of t's call returned, from the log of its
\* store operations
Step1Done(t) ==
    \/ ~ parse_str(task[t].session_id)
    \/ Len(StoreOps(t)) >= 1 /\ StoreOps(t)[1].fault # ""
    \/ Len(StoreOps(t)) >= 2

Step1Result(t) ==
    IF ~ parse_str(task[t].session_id) THEN FormatError
    ELSE IF StoreOps(t)[1].fault # ""
    THEN Err(Redis("Failed to connect to Redis", StoreOps(t)[1].fault))
    ELSE IF StoreOps(t)[2].fault # ""
    THEN Err(Redis("Failed to get session", StoreOps(t)[2].fault))
    ELSE resolve_session_finish(StoreOps(t)[2].reply)

\* C6: the store operations of a composite authenticate are, in this order,
\* connect, get mcp_session:<session_id>, connect, get
\* linked_account:<user_id>:<provider>, where user_id is the value step 1
\* returned; step 2 begins only after step 1 succeeded, and when step 1
\* failed the call is finished with step 1's error and has read no
\* linked_account key.
C6_CompositeOrderAndShortCircuit ==
    \A t \in DOMAIN task :
        task[t].op = "authenticate" =>
            LET ops == StoreOps(t)
                n == Len(ops)
            IN /\ n <= 4
               /\ \A i \in 1..n : ops[i].op = IF i % 2 = 1 THEN "connect" ELSE "get"
               /\ n >= 2 => ops[2].key = SessionPrefix \o task[t].session_id
               /\ (n >= 3 \/ task[t].pc \in {"tok_connect", "tok_get"}) =>
                    /\ Step1Done(t) /\ Step1Result(t).ok
                    /\ task[t].user_id = Step1Result(t).val
               /\ n = 4 =>
                    ops[4].key = OAuthPrefix \o Step1Result(t).val
                                    \o <<":">> \o task[t].provider
               /\ Step1Done(t) /\ ~ Step1Result(t).ok =>
                    /\ Done(t)
                    /\ task[t].result = Step1Result(t)
                    /\ \A i \in 1..n : ~ StartsWith(ops[i].key, OAuthPrefix)

\* a composite authenticate that read the token of the user its session
\* resolved to
C6_Witness ==
    \E t \in DOMAIN task :
        /\ Done(t) /\ task[t].op = "authenticate"
        /\ task[t].session_id = SidB /\ task[t].provider = Github
        /\ Len(StoreOps(t)) = 4
        /\ StoreOps(t)[2].reply = SessStale
        /\ StoreOps(t)[4].key = oauth_key(U2, Github)
        /\ task[t].result.ok

\* a payload that is a Session Record: a JSON object with the four string
\* fields of section 3 of the specification
IsSessionRecord(p) ==
    /\ p.kind = "object"
    /\ \A f \in {"session_id", "user_id", "created_at", "expires_at"} :
         f \in DOMAIN p.obj /\ p.obj[f].t = "str"

\* C7: when resolve_session(id), for an id of UUID version 4 shape, reads
\* the store without a fault, it succeeds exactly when the store holds, at
\* the moment of the read, a value at "mcp_session:" + id that is a Session
\* Record, and it then returns that record's user_id, whatever the record's
\* session_id, created_at and expires_at are.
C7_ResolveIffRecordStored ==
    [][\A t \in DOMAIN task :
         ( /\ task[t].pc = "rs_get"
           /\ task[t].op = "resolve_session"
           /\ IsUuidV4Shape(task[t].session_id)
           /\ task'[t].pc = "done"
           /\ task'[t].ops[Len(task'[t].ops)].fault = "" )
         => LET key == SessionPrefix \o task[t].session_id
                stored == /\ key \in DOMAIN store
                          /\ store[key] # Absent
                          /\ IsSessionRecord(store[key])
            IN /\ task'[t].result.ok <=> stored
               /\ stored => task'[t].result = Ok(store[key].obj["user_id"].v)
    ]_vars

\* resolve_session(SidB) has returned the user of a record that names
\* another session id and is past its own expires_at
C7_Witness ==
    \E t \in DOMAIN task :
        /\ Done(t) /\ task[t].op = "resolve_session"
        /\ task[t].session_id = SidB
        /\ LastOp(t).op = "get" /\ LastOp(t).fault = ""
        /\ LastOp(t).reply = SessStale
        /\ task[t].result = Ok(U2)

\* C8: AuthProvider::authenticate of the session provider issues at most
\* one connect and one get, the get on the mcp_session key of the
\* credential and never on a linked_account key; it succeeds exactly when
\* resolve_session does, then with AuthData whose user_id is the resolved
\* user and whose metadata is exactly {"session_id": credential,
\* "auth_type": "redis_session"}; otherwise it returns resolve_session's
\* error unchanged.
C8_ProviderAuthenticateIsStep1Only ==
    \A t \in DOMAIN task :
        task[t].op = "AuthProvider_authenticate" =>
            /\ Len(StoreOps(t)) <= 2
            /\ \A i \in 1..Len(StoreOps(t)) :
                 /\ ~ StartsWith(StoreOps(t)[i].key, OAuthPrefix)
                 /\ StoreOps(t)[i].op = "get" =>
                      StoreOps(t)[i].key = SessionPrefix \o task[t].session_id
            /\ Done(t) =>
                 /\ Step1Done(t)
                 /\ task[t].result.ok <=> Step1Result(t).ok
                 /\ ~ task[t].result.ok => task[t].result = Step1Result(t)
                 /\ task[t].result.ok =>
                      /\ task[t].result.val.user_id = Step1Result(t).val
                      /\ DOMAIN task[t].result.val.metadata
                            = {"session_id", "auth_type"}
                      /\ task[t].result.val.metadata["session_id"]
                            = task[t].session_id
                      /\ task[t].result.val.metadata["auth_type"]
                            = "redis_session"

\* AuthProvider::authenticate(SidA) has returned U1's identity
C8_Witness ==
    \E t \in DOMAIN task :
        /\ Done(t) /\ task[t].op = "AuthProvider_authenticate"
        /\ task[t].session_id = SidA
        /\ task[t].result.ok
        /\ task[t].result.val.user_id = U1

\* C9: authenticate of the key-table provider succeeds exactly for the
\* credentials that are, character for character, a key of the table, then
\* with AuthData{user_id: the mapped user, metadata: {"auth_type":
\* "api_key"}}; for every other credential it fails with
\* InvalidSession("Invalid API key").
C9_KeyLookupVerbatim ==
    apiCall.op = "authenticate" =>
        IF \E k \in DOMAIN api_keys : k = apiCall.credential
        THEN /\ apiCall.result.ok
             /\ apiCall.result.val.user_id = api_keys[apiCall.credential]
             /\ DOMAIN apiCall.result.val.metadata = {"auth_type"}
             /\ apiCall.result.val.metadata["auth_type"] = "api_key"
        ELSE apiCall.result = Err(InvalidSession("Invalid API key", ""))

\* " k1" was presented to a table that holds "k1" and was refused
C9_Witness ==
    /\ apiCall.op = "authenticate"
    /\ apiCall.credential = KeyLead
    /\ KeyK1 \in DOMAIN api_keys
    /\ KeyLead \notin DOMAIN api_keys
    /\ ~ apiCall.result.ok

\* C10: a credential that the key-table provider's
\* validate_credential_format rejects is one that its authenticate rejects
\* too, whatever table from_env or new built.
C10_FormatRejectionImpliesAuthRejection ==
    ( /\ apiCall.op = "validate_credential_format"
      /\ ~ apiCall.result.ok )
    => ~ apikey_authenticate(api_keys, apiCall.credential).ok

\* The sampled expires_at values that are RFC3339 timestamps, with the
\* instant each denotes in UTC (seconds since 1970-01-01T00:00:00Z and
\* milliseconds), worked out by hand from the calendar.
UtcInstantOf(ts) ==
    CASE ts = TsExpiry -> <<1780315200, 0>>
      [] ts = TsExpiryFrac -> <<1780315200, 500>>
      [] ts = TsSameInstantPlus -> <<1780315200, 0>>
      [] ts = TsSameInstantMinus -> <<1780315200, 0>>
      [] ts = TsSameInstantHalf -> <<1780315200, 0>>
      [] ts = TsExpiryOffset -> <<1780311600, 0>>
      [] ts = TsNextDayOffset -> <<1780311600, 0>>
      [] ts = TsPast -> <<1577836800, 0>>
      [] ts = TsFuture -> <<1893456000, 0>>

Rfc3339Samples ==
    {TsExpiry, TsExpiryFrac, TsSameInstantPlus, TsSameInstantMinus,
     TsSameInstantHalf, TsExpiryOffset, TsNextDayOffset, TsPast, TsFuture}

\* instant a is before instant b
Before(a, b) == a[1] < b[1] \/ (a[1] = b[1] /\ a[2] < b[2])

\* C11: is_expired returns true exactly when expires_at is no RFC3339
\* timestamp or the current time is not before the instant expires_at
\* denotes in UTC, whatever offset it is written with: expired when that
\* instant is past, expired when it equals now, not expired when it is
\* still to come, and expired whenever expires_at does not parse.
C11_ExpiredIffUnparsableOrPast ==
    tokenCall.op = "is_expired" =>
        LET ts == tokenCall.token.expires_at
        IN tokenCall.result =
             IF ts \in Rfc3339Samples
             THEN ~ Before(tokenCall.clock, UtcInstantOf(ts))
             ELSE TRUE

\* is_expired was asked, at 2026-06-01T11:00:00Z, about a record that expires
\* at 13:00:00+02:00, the same instant, and answered true; the time of day
\* written in expires_at is later than the clock's
C11_Witness ==
    /\ tokenCall.op = "is_expired"
    /\ tokenCall.token.expires_at = TsExpiryOffset
    /\ tokenCall.clock = <<1780311600, 0>>
    /\ tokenCall.result = TRUE

\* p occurs in s: s is some prefix of s, then p, then some suffix of s
IsSubstring(p, s) ==
    \E i \in 0..Len(s) : \E j \in i..Len(s) :
        SubSeq(s, 1, i) \o p \o SubSeq(s, j + 1, Len(s)) = s

\* C12: has_scope(required) is true if and only if at least one entry of the
\* record's scopes contains required as a substring, for every scopes list
\* and every required string, the empty one included; it is false whenever
\* scopes is empty.
C12_HasScopeIffSomeScopeContains ==
    tokenCall.op = "has_scope" =>
        LET scopes == tokenCall.token.scopes
        IN /\ tokenCall.result
                <=> \E k \in 1..Len(scopes) : IsSubstring(tokenCall.arg, scopes[k])
           /\ scopes = <<>> => tokenCall.result = FALSE

\* has_scope("userinfo.email") was answered true for a record whose second
\* scope is a URL that ends in it, and no scope equals it
C12_Witness ==
    /\ tokenCall.op = "has_scope"
    /\ tokenCall.token.scopes = <<ScopeOpenid, ScopeUrl>>
    /\ tokenCall.arg = ScopeEmail
    /\ tokenCall.result = TRUE

AuthDisabled == Err(InvalidSession("Authentication is disabled", ""))

\* C13: authenticate of the disabled provider fails with the "Authentication
\* is disabled" error for every credential, whatever the store, the key table
\* and the time are, and issues no store operation; its
\* validate_credential_format, the trait's default, succeeds for every
\* credential.
C13_DisabledProviderAlwaysRefuses ==
    \A t \in DOMAIN task :
        task[t].auth = "NoOpAuthProvider" /\ task[t].pc # "idle" =>
            /\ Done(t)
            /\ StoreOps(t) = <<>>
            /\ task[t].op \in {"AuthProvider_authenticate",
                               "validate_credential_format"}
            /\ task[t].op = "AuthProvider_authenticate" =>
                 task[t].result = AuthDisabled
            /\ task[t].op = "validate_credential_format" =>
                 task[t].result = Ok(Unit)

\* the disabled provider has refused the id of a session the store holds
C13_Witness ==
    \E t \in DOMAIN task :
        /\ Done(t) /\ task[t].auth = "NoOpAuthProvider"
        /\ task[t].op = "AuthProvider_authenticate"
        /\ task[t].session_id = SidA
        /\ store = PopulatedStore
        /\ task[t].result = AuthDisabled

\* the number of operations of kind k in a log of store operations
CountOps(ops, k) == Cardinality({i \in 1..Len(ops) : ops[i].op = k})

\* One call, so far: at most one connection attempt and one get for each of
\* resolve_session and get_oauth_token, nothing after a failed operation,
\* and no answer without a read of its own when the credential is well
\* formed and the connection was made.
NoRetry(tk) ==
    tk.op \in ResolvingOps \cup {"get_oauth_token"} =>
        LET steps == IF tk.op = "authenticate" THEN 2 ELSE 1
        IN /\ CountOps(tk.ops, "connect") <= steps
           /\ CountOps(tk.ops, "get") <= steps
           /\ \A i \in 1..Len(tk.ops) : \A j \in 1..Len(tk.ops) :
                ( /\ i < j
                  /\ tk.ops[i].op = "get" /\ tk.ops[j].op = "get" )
                => tk.ops[i].key # tk.ops[j].key
           /\ \A i \in 1..Len(tk.ops) :
                tk.ops[i].fault # "" =>
                    i = Len(tk.ops) /\ tk.pc = "done" /\ ~ tk.result.ok
           /\ ( /\ tk.pc = "done"
                /\ tk.op = "get_oauth_token" \/ parse_str(tk.session_id) )
              => /\ Len(tk.ops) >= 1
                 /\ tk.ops[1].fault = "" => CountOps(tk.ops, "get") >= 1

\* what the store holds at key
Stored(key) == IF key \in DOMAIN store THEN store[key] ELSE Absent

StaysUnexpired(token, clock) ==
    Len(clock) = 1 =>
        ~ InstantGe(clock[1], parse_from_rfc3339(token.expires_at).t)

\* C15: while the store has not changed, repeated authenticate(session_id,
\* provider) calls that succeed return records with identical field values;
\* and once a call has succeeded, a later call that reaches the store
\* without a driver fault while the token is still unexpired succeeds too,
\* so the earlier calls have not changed what it returns.
C15_AuthenticateIdempotent ==
    \A t \in DOMAIN task :
        task[t].op = "authenticate" /\ storeOps = 0 =>
            LET prev == task[t].prev
            IN /\ \A i \in 1..Len(prev) : \A j \in 1..Len(prev) :
                    prev[i].ok /\ prev[j].ok => prev[i].val = prev[j].val
               /\ Done(t) /\ task[t].result.ok =>
                    \A i \in 1..Len(prev) :
                        prev[i].ok => prev[i].val = task[t].result.val
               /\ ( /\ Done(t)
                    /\ \A k \in 1..Len(StoreOps(t)) : StoreOps(t)[k].fault = ""
                    /\ \E i \in 1..Len(prev) :
                         /\ prev[i].ok
                         /\ StaysUnexpired(prev[i].val, task[t].clock) )
                  => task[t].result.ok

\* three authenticate(SidA, google) calls over an unchanged store have each
\* returned the same record
C15_Witness ==
    \E t \in DOMAIN task :
        /\ Done(t) /\ task[t].op = "authenticate"
        /\ storeOps = 0
        /\ Len(task[t].prev) >= 2
        /\ task[t].prev[1].ok /\ task[t].prev[2].ok
        /\ task[t].result.ok
        /\ task[t].result.val.access_token = Secret1

\* C16: no step of validate_credential_format, resolve_session,
\* get_oauth_token or authenticate, successful or failed, changes the value
\* of any mcp_session or linked_account key, and the only operations these
\* calls issue on the store are connect and get.
C16_NoStoreWrites ==
    [][(\E t \in DOMAIN task : task'[t] # task[t]) =>
          /\ \A k \in DOMAIN store \cup DOMAIN store' : Stored(k)' = Stored(k)
          /\ \A t \in DOMAIN task : \A i \in 1..Len(task'[t].ops) :
               task'[t].ops[i].op \in {"connect", "get"}
    ]_vars

\* a composite authenticate has read both of its keys, found the token
\* expired and failed, and the store holds what it held before
C16_Witness ==
    \E t \in DOMAIN task :
        /\ Done(t) /\ task[t].op = "authenticate"
        /\ Len(StoreOps(t)) = 4
        /\ task[t].result = TokenExpired
        /\ storeOps = 0
        /\ store = PopulatedStore

\* What resolve_session returns to a call that runs alone and meets the
\* driver faults of tk's log: the outcome of its format check, of its
\* connection attempt and of its read of the store as it is.
AloneSession(tk) ==
    IF ~ parse_str(tk.session_id) THEN FormatError
    ELSE IF tk.ops[1].fault # ""
    THEN Err(Redis("Failed to connect to Redis", tk.ops[1].fault))
    ELSE IF tk.ops[2].fault # ""
    THEN Err(Redis("Failed to get session", tk.ops[2].fault))
    ELSE resolve_session_finish(Stored(SessionPrefix \o tk.session_id))

\* the same for get_oauth_token(user_id, tk.provider), whose store
\* operations are those after the first n of tk's log
AloneToken(tk, user_id, n) ==
    IF tk.ops[n + 1].fault # ""
    THEN Err(Redis("Failed to connect to Redis", tk.ops[n + 1].fault))
    ELSE IF tk.ops[n + 2].fault # ""
    THEN Err(Redis("Failed to get OAuth token", tk.ops[n + 2].fault))
    ELSE get_oauth_token_finish(
           Stored(OAuthPrefix \o user_id \o <<":">> \o tk.provider), now)

\* the result of tk's call had it run alone
Alone(tk) ==
    CASE tk.auth = "ApiKeyAuthService" ->
            apikey_authenticate(api_keys, tk.session_id)
      [] tk.op = "get_oauth_token" -> AloneToken(tk, tk.user_id, 0)
      [] tk.op = "resolve_session" -> AloneSession(tk)
      [] OTHER -> IF AloneSession(tk).ok
                  THEN AloneToken(tk, AloneSession(tk).val, 2)
                  ELSE AloneSession(tk)

\* C17: whatever the other task is doing, a finished call has returned the
\* result it would have returned running alone over the same store or key
\* table, and a call under way can always take its next step: it waits for
\* no other call.
C17_ConcurrentCallsDoNotInterfere ==
    \A t \in DOMAIN task :
        /\ Done(t) => task[t].result = Alone(task[t])
        /\ task[t].pc = "idle" =>
             ENABLED StartResolve(t, "authenticate", SidA, Github)
        /\ task[t].pc = "rs_connect" => ENABLED SessionConnect(t)
        /\ task[t].pc = "rs_get" => ENABLED SessionGet(t)
        /\ task[t].pc = "tok_connect" => ENABLED TokenConnect(t)
        /\ task[t].pc = "tok_get" => ENABLED TokenGet(t)

\* both tasks were reading the store at the same time, for different
\* sessions and users, and each has the token of its own session's user
C17_Witness ==
    /\ Done("t1") /\ Done("t2")
    /\ task["t1"].op = "authenticate" /\ task["t2"].op = "authenticate"
    /\ task["t1"].session_id = SidA /\ task["t2"].session_id = SidB
    /\ task["t1"].result.ok /\ task["t1"].result.val.user_id = U1
    /\ task["t2"].result.ok /\ task["t2"].result.val.user_id = U2

\* the text a failed tool call sent to the client, in pieces
ClientMessage(t) == task[t].reply.err.message

\* the driver's error texts t's call met
FaultTexts(t) ==
    {task[t].ops[i].fault : i \in DOMAIN task[t].ops} \ {""}

CorruptRecordMessages == {"Invalid session data", "Invalid OAuth token data"}

\* C18: the rejection a tool returns to the client for a failed
\* authentication holds no internal detail: it contains neither the text of
\* a driver error the call met (so it is the same whatever that text is) nor,
\* for a corrupt record, the deserializer's message.
C18_ToolRejectionLeaksNoInternalDetail ==
    \A t \in DOMAIN task :
        (Done(t) /\ task[t].tool \in AuthTools /\ ~ task[t].reply.ok) =>
            \A j \in DOMAIN ClientMessage(t) :
                /\ ClientMessage(t)[j] \notin FaultTexts(t)
                /\ task[t].result.err.msg \in CorruptRecordMessages =>
                     ClientMessage(t)[j] # task[t].result.err.detail

\* the credential of tool call t has not the format its provider issues:
\* a session id that is no UUID of version 4, an empty API key
Malformed(t) ==
    CASE task[t].tool \in SessionTools \/ task[t].auth = "RedisAuthService" ->
            ~ IsUuidV4Shape(task[t].session_id)
      [] task[t].auth = "ApiKeyAuthService" -> task[t].session_id = Empty
      [] OTHER -> FALSE

\* C19: a tool given a malformed credential has returned an invalid-params
\* rejection from its format check, without calling authenticate or
\* resolve_session; a tool whose provider call was made had a credential
\* that passed the format check.
C19_ToolsValidateBeforeProviderCall ==
    \A t \in DOMAIN task :
        task[t].tool \in AuthTools =>
            /\ Malformed(t) =>
                 /\ Done(t)
                 /\ task[t].op = "validate_credential_format"
                 /\ StoreOps(t) = <<>>
                 /\ ~ task[t].reply.ok
                 /\ task[t].reply.err.code = "invalid_params"
            /\ task[t].op # "validate_credential_format" =>
                 ToolValidate(task[t].tool, task[t].auth, task[t].session_id).ok

\* the variants of ServerError the authentication core constructs
ClassifiedErrors == {"InvalidSession", "Redis"}

\* a Result<_, ServerError> as a call returns it
IsPerCallResult(r) ==
    \/ r.ok /\ r.err = NoError
    \/ /\ ~ r.ok
       /\ r.err.variant \in ClassifiedErrors
       /\ r.err.msg # ""

\* C20: whatever the credential and whatever the store answers, every
\* operation of every provider, called directly or by a tool, ends with a
\* success value or a classified error, and a call that has not yet returned
\* can always go on to its next step: no input makes a call panic or stop.
C20_EveryCallReturnsAResult ==
    \A t \in DOMAIN task :
        /\ Done(t) => IsPerCallResult(task[t].result)
        /\ task[t].pc = "rs_connect" => ENABLED SessionConnect(t)
        /\ task[t].pc = "rs_get" => ENABLED SessionGet(t)
        /\ task[t].pc = "tok_connect" => ENABLED TokenConnect(t)
        /\ task[t].pc = "tok_get" => ENABLED TokenGet(t)
        /\ task[t].pc \in {"idle", "rs_connect", "rs_get", "tok_connect",
                           "tok_get", "done"}

\* authenticate read a session, then a token record that lacks a required
\* field, and returned the error of a record that does not deserialize
C20_Witness ==
    \E t \in DOMAIN task :
        /\ Done(t) /\ task[t].op = "authenticate"
        /\ Len(StoreOps(t)) = 4
        /\ LastOp(t).fault = "" /\ LastOp(t).reply = TokNoSecret
        /\ ~ task[t].result.ok
        /\ task[t].result.err.msg = "Invalid OAuth token data"

\* every call of t's sequence so far, the last one included
KeyCalls(tk) == IF tk.pc = "done" THEN Append(tk.prev, KeyCallEntry(tk)) ELSE tk.prev

\* C21: no authenticate or validate_credential_format call on the key-table
\* provider, hit or miss, changes the table, and within a sequence of such
\* calls every authenticate(k) has returned the same result as every other
\* authenticate(k), wherever in the sequence it was made.
C21_KeyTableAuthenticateIsPure ==
    [][ /\ api_keys' = api_keys
        /\ \A t \in DOMAIN task :
             LET calls == KeyCalls(task'[t])
             IN \A i \in 1..Len(calls) : \A j \in 1..Len(calls) :
                  ( /\ calls[i].op = "AuthProvider_authenticate"
                    /\ calls[j].op = "AuthProvider_authenticate"
                    /\ calls[i].credential = calls[j].credential )
                  => calls[i].result = calls[j].result
      ]_vars

\* authenticate("k1") hit, another key missed, and authenticate("k1") hit
\* again with the same identity
C21_Witness ==
    \E t \in DOMAIN task :
        /\ Len(KeyCalls(task[t])) = 3
        /\ KeyCalls(task[t])[1].op = "AuthProvider_authenticate"
        /\ KeyCalls(task[t])[1].credential = KeyK1
        /\ KeyCalls(task[t])[1].result.ok
        /\ KeyCalls(task[t])[2].op = "AuthProvider_authenticate"
        /\ ~ KeyCalls(task[t])[2].result.ok
        /\ KeyCalls(task[t])[3].op = "AuthProvider_authenticate"
        /\ KeyCalls(task[t])[3].credential = KeyK1
        /\ KeyCalls(task[t])[3].result = KeyCalls(task[t])[1].result

\* C22: validate_credential_format of the key-table provider fails, with
\* the format error "API key cannot be empty", for the credential of length
\* 0 and succeeds for every other credential, whatever the table holds.
C22_KeyFormatRejectsOnlyEmpty ==
    apiCall.op = "validate_credential_format" =>
        IF Len(apiCall.credential) = 0
        THEN /\ ~ apiCall.result.ok
             /\ apiCall.result.err.variant = "InvalidSession"
             /\ apiCall.result.err.msg = "API key cannot be empty"
        ELSE apiCall.result = Ok(Unit)

\* a key that is in no table was accepted by the validator of a provider
\* whose table is empty
C22_Witness ==
    /\ apiCall.op = "validate_credential_format"
    /\ apiCall.credential = KeyBogus
    /\ api_keys = EmptyTable
    /\ apiCall.result.ok

\* C23: a token returned by authenticate(session_id, provider) is the
\* session's user's token for the requested provider: its user_id is the
\* user_id step 1 resolved and its provider is the provider asked for,
\* also when user ids and provider strings contain ':'.
C23_TokenBelongsToSessionUserAndProvider ==
    \A t \in DOMAIN task :
        (Done(t) /\ task[t].op = "authenticate" /\ task[t].result.ok) =>
            /\ task[t].result.val.user_id = Step1Result(t).val
            /\ task[t].result.val.provider = task[t].provider

\* v is a token record that is not expired at clock
IsUnexpiredToken(v, clock) ==
    /\ v # Absent
    /\ from_str_OAuthTokenData(v).ok
    /\ LET expires_at == parse_from_rfc3339(from_str_OAuthTokenData(v).val.expires_at)
       IN expires_at.ok /\ ~ InstantGe(clock, expires_at.t)

\* C24: in every step of a composite authenticate, whatever the other task
\* and the store's issuer and TTL do in between: step 1 hands a user to
\* step 2 only when the store holds a parseable session record at
\* mcp_session:<session_id> at the moment of its read; the call returns a
\* token only when the store holds an unexpired token record at
\* linked_account:<user_id>:<provider> at the moment of step 2's read, and
\* after both reads; and what step 2 returns is decided by that key and the
\* clock alone, so that a session evicted after step 1 changes nothing.
C24_TokenJustifiedByBothReads ==
    [][\A t \in DOMAIN task :
         task[t].op = "authenticate" =>
            LET sess == Stored(session_key(task[t].session_id))
                tok == Stored(oauth_key(task[t].user_id, task[t].provider))
            IN /\ (task[t].pc = "rs_get" /\ task'[t].pc = "tok_connect") =>
                    /\ sess # Absent
                    /\ from_str_SessionData(sess).ok
                    /\ task'[t].user_id = from_str_SessionData(sess).val.user_id
               /\ (task'[t].pc = "done" /\ task'[t].result.ok /\ task[t].pc # "done") =>
                    /\ task[t].pc = "tok_get"
                    /\ Len(task'[t].ops) = 4
                    /\ from_str_SessionData(task'[t].ops[2].reply).ok
                    /\ task'[t].ops[4].reply = tok
                    /\ IsUnexpiredToken(tok, now)
                    /\ task'[t].result.val = from_str_OAuthTokenData(tok).val
               /\ ( /\ task[t].pc = "tok_get" /\ task'[t].pc = "done"
                    /\ task'[t].ops[Len(task'[t].ops)].fault = "" ) =>
                    task'[t].result = get_oauth_token_finish(tok, now)
    ]_vars

\* step 1 of t1's authenticate read the session record, the store has since
\* evicted the session, and the call goes on to read the token
C24_Witness ==
    /\ task["t1"].op = "authenticate"
    /\ task["t1"].pc = "tok_get"
    /\ task["t1"].ops[2].reply = SessGood
    /\ Stored(session_key(SidA)) = Absent
    /\ IsUnexpiredToken(Stored(oauth_key(U1, Google)), now)

\* the environment variables that set key k, in either case of letters
McpVariables(k) ==
    CASE k = KeyServerName -> {VarServerName}
      [] k = KeyLevel -> {VarLevel, VarLevelLower}
      [] OTHER -> {}

\* the user config file load read, if it read one
UserConfig ==
    IF \E i \in 1..Len(loaded.config_sources) :
          loaded.config_sources[i].path # "/config.toml"
    THEN (CHOOSE s \in {loaded.config_sources[i] : i \in 1..Len(loaded.config_sources)} :
            s.path # "/config.toml").toml
    ELSE NoToml

LayeredKeys == {KeyServerName, KeyLevel, KeyTransport}

\* C25: in the configuration Config::load returns, each key has the value of
\* the strongest source that sets it: an MCP_ environment variable before
\* /config.toml, /config.toml before the user config, the user config
\* before the built-in default; a key no source sets has its default.
C25_ConfigLayering ==
    (loaded.called /\ loaded.result.ok) =>
        \A k \in LayeredKeys :
            LET config == loaded.result.val
            IN IF \E n \in McpVariables(k) : n \in DOMAIN loaded.env
               THEN \E n \in McpVariables(k) :
                      n \in DOMAIN loaded.env /\ config[k] = loaded.env[n]
               ELSE IF loaded.docker.exists /\ k \in DOMAIN loaded.docker.toml
               THEN config[k] = loaded.docker.toml[k]
               ELSE IF k \in DOMAIN UserConfig
               THEN config[k] = UserConfig[k]
               ELSE IF k \in DOMAIN Defaults
               THEN config[k] = Defaults[k]
               ELSE k \notin DOMAIN config

\* C26: Server::run has returned from serving only if the transport service
\* had ended or the Ctrl-C signal had been received.
C26_RunReturnsOnlyOnEndOrSignal ==
    server.pc = "returned" =>
        \/ server.service \in {"ended", "ended_with_error"}
        \/ server.ctrl_c = "received"

\* C27: roll rejects sides = 0 and a count outside 1..=100 with
\* invalid_params and rolls nothing; for every other request it succeeds,
\* each rolled value lies in 1..=sides, and the reported total is the sum
\* of the rolls and is at most the u32 maximum.
C27_RollChecksAndSumsExactly ==
    rolled.called =>
        IF rolled.sides = <<0, 0>> \/ rolled.count < 1 \/ rolled.count > 100
        THEN /\ rolled.outcome = "invalid_params"
             /\ rolled.rolls = <<>>
        ELSE /\ rolled.outcome = "success"
             /\ Len(rolled.rolls) = rolled.count
             /\ \A i \in 1..Len(rolled.rolls) :
                  /\ Le(<<0, 1>>, rolled.rolls[i])
                  /\ Le(rolled.rolls[i], rolled.sides)
             /\ rolled.total = Sum(rolled.rolls)
             /\ Le(rolled.total, U32Max)

====
